---- MODULE Spec2Model ----
(***************************************************************************)
(* A model of the interactive shell of src/main.c: the tokenizer           *)
(* (parse_command), the '|' splitter and the redirection scan of main, the *)
(* builtin dispatcher with its descriptor save/restore, and the process    *)
(* orchestration of execute_pipeline (pipes, forks, closes, waits).        *)
(*                                                                         *)
(* A C string is a sequence of one-character strings; the terminating NUL  *)
(* is what CharAt returns past the end.  A descriptor table maps the       *)
(* descriptor numbers 0..MaxFd-1 to what they refer to.                    *)
(***************************************************************************)
EXTENDS Integers, Sequences, FiniteSets, TLC

\* ------------------------------------------------------------ constants
MAX_CMD_LEN == 1024
MAX_ARGS == 64
CMD_AVAILABLE == 6
MAX_PIPELINE_CMDS == 32

\* ------------------------------------------------------------ bounds
\* descriptors a process may hold (its RLIMIT_NOFILE): 0..MaxFd-1
MaxFd == 7
\* stages of the pipelines the line reader supplies
MaxStages == 3
\* system-call failures (fork, open) the environment injects in one session
MaxFaults == 1
\* characters of the lines typed in the tokenizer specification
MaxTyped == 5
\* the lines of a session, counted by the entries of the history list
MaxHist == 3
\* the directories of the PATH values of the path search specification
MaxPath == 3

\* ------------------------------------------------------------ characters
NUL == "NUL"
SP == " "
TAB == "\t"
SQ == "'"
DQ == "\""
BS == "\\"
DOLLAR == "$"
\* the backquote character (written out: the lexer reserves the character)
BTICK == "BQ"
NL == "\n"
BAR == "|"

\* the C string s, 0-based: s[i], and NUL at and past its end
CharAt(s, i) == IF i >= 0 /\ i < Len(s) THEN s[i + 1] ELSE NUL

\* n copies of s
RECURSIVE Repeat(_, _)
Repeat(s, n) ==
    IF n <= 0 THEN <<>>
    ELSE IF n = 1 THEN s
    ELSE Repeat(s, n \div 2) \o Repeat(s, n - (n \div 2))

\* F applied to the value v: the value is computed once, bound as the
\* element of a set, and used as often as F's body needs it
With(v, F(_)) == CHOOSE y \in { F(x) : x \in {v} } : TRUE

\* ------------------------------------------------------------ parse_command
\* the locals of parse_command: i, argc/argv (argv[0..argc-1] is args),
\* current_arg[0..arg_pos-1] (cur), the two quote flags, and whether a write
\* went past current_arg[MAX_CMD_LEN-1]
ParseInit ==
    [i |-> 0, args |-> <<>>, cur |-> <<>>, sq |-> FALSE, dq |-> FALSE, ovf |-> FALSE]

\* current_arg[arg_pos++] = c
PutChar(s, c) ==
    [s EXCEPT !.cur = Append(@, c), !.ovf = @ \/ Len(s.cur) >= MAX_CMD_LEN]

\* current_arg[arg_pos] = '\0'; argv[argc] = copy of current_arg; argc++;
\* arg_pos = 0
PushArg(s) ==
    [s EXCEPT !.args = Append(@, s.cur), !.cur = <<>>,
              !.ovf = @ \/ Len(s.cur) >= MAX_CMD_LEN]

\* a faulty variant: backslash escapes the next character inside single quotes
StepSingleEsc(input, s) ==
    LET ch == CharAt(input, s.i)
    IN  IF ch = SQ THEN [s EXCEPT !.sq = FALSE]
        ELSE IF ch = BS /\ CharAt(input, s.i + 1) # NUL
             THEN [PutChar(s, CharAt(input, s.i + 1)) EXCEPT !.i = @ + 1]
             ELSE PutChar(s, ch)

\* the in_single_quote branch of the loop body
StepSingle(input, s) ==
    LET ch == CharAt(input, s.i)
    IN  IF ch = SQ THEN [s EXCEPT !.sq = FALSE] ELSE PutChar(s, ch)

\* the characters a backslash escapes inside double quotes
DqEscapable == {DQ, BS, DOLLAR, BTICK, NL}

\* the in_double_quote branch of the loop body
StepDouble(input, s) ==
    LET ch == CharAt(input, s.i)
        next == CharAt(input, s.i + 1)
    IN  IF ch = DQ THEN [s EXCEPT !.dq = FALSE]
        ELSE IF ch = BS
             THEN IF next \in DqEscapable
                  THEN [PutChar(s, next) EXCEPT !.i = @ + 1]
                  ELSE PutChar(s, ch)
             ELSE PutChar(s, ch)

\* how many of input[i+1], input[i+2], ... are spaces or tabs
RECURSIVE BlankRun(_, _)
BlankRun(input, i) ==
    IF CharAt(input, i + 1) \in {SP, TAB} THEN 1 + BlankRun(input, i + 1) ELSE 0

\* a faulty variant: every blank ends an argument, an empty one included
StepOutsideNoCollapse(input, s) ==
    LET ch == CharAt(input, s.i)
    IN  IF ch = SQ THEN [s EXCEPT !.sq = TRUE]
        ELSE IF ch = DQ THEN [s EXCEPT !.dq = TRUE]
        ELSE IF ch = BS
             THEN IF CharAt(input, s.i + 1) # NUL
                  THEN [PutChar(s, CharAt(input, s.i + 1)) EXCEPT !.i = @ + 1]
                  ELSE s
        ELSE IF ch \in {SP, TAB} THEN PushArg(s)
        ELSE PutChar(s, ch)

\* the outside-quotes branch of the loop body
StepOutside(input, s) ==
    LET ch == CharAt(input, s.i)
    IN  IF ch = SQ THEN [s EXCEPT !.sq = TRUE]
        ELSE IF ch = DQ THEN [s EXCEPT !.dq = TRUE]
        ELSE IF ch = BS
             THEN IF CharAt(input, s.i + 1) # NUL
                  THEN [PutChar(s, CharAt(input, s.i + 1)) EXCEPT !.i = @ + 1]
                  ELSE s
        ELSE IF ch \in {SP, TAB}
             THEN [(IF Len(s.cur) > 0 THEN PushArg(s) ELSE s)
                       EXCEPT !.i = @ + BlankRun(input, s.i)]
        ELSE PutChar(s, ch)

\* one iteration of the loop: the branch for the quote state, then i++
ParseStep(input, s) ==
    LET t == IF s.sq THEN StepSingle(input, s)
             ELSE IF s.dq THEN StepDouble(input, s)
             ELSE StepOutside(input, s)
    IN  [t EXCEPT !.i = @ + 1]

\* one turn of while (input[i] != '\0' && argc < MAX_ARGS - 1): the body
\* when the condition holds, nothing once the loop has ended
ParseTurn(input, s) ==
    IF CharAt(input, s.i) = NUL \/ Len(s.args) >= MAX_ARGS - 1
    THEN s
    ELSE ParseStep(input, s)

\* n turns of the loop
RECURSIVE ParseTurns(_, _, _)
ParseTurns(input, s, n) ==
    IF n <= 0 THEN s
    ELSE IF n = 1 THEN ParseTurn(input, s)
    ELSE LET half == ParseTurns(input, s, n \div 2)
         IN  IF half.i >= 0 THEN ParseTurns(input, half, n - (n \div 2)) ELSE half

\* the loop: every turn consumes a byte, so Len(input) turns end it
ParseLoop(input, s) == ParseTurns(input, s, Len(input))

\* after the loop: the last argument, the unclosed-quote checks (which free
\* every argument and return -1), argv[argc] = NULL.  nullAt is the index
\* the NULL was stored at, -1 when none was; freed is the number of
\* arguments the unclosed-quote branches freed
ParseFinish(s) ==
    LET f == IF Len(s.cur) > 0 THEN PushArg(s) ELSE s
    IN  IF f.sq
        THEN [argc |-> -1, args |-> <<>>, nullAt |-> -1, err |-> "single", ovf |-> f.ovf,
              freed |-> Len(f.args)]
        ELSE IF f.dq
        THEN [argc |-> -1, args |-> <<>>, nullAt |-> -1, err |-> "double", ovf |-> f.ovf,
              freed |-> Len(f.args)]
        ELSE [argc |-> Len(f.args), args |-> f.args, nullAt |-> Len(f.args),
              err |-> "none", ovf |-> f.ovf, freed |-> 0]

parse_command(input) == ParseFinish(ParseLoop(input, ParseInit))

\* ------------------------------------------------------------ the '|' splitter
\* pipe_count: the '|' bytes of the line (from byte i on)
CountBarsFrom(s, i) == Cardinality({j \in i..Len(s) : s[j] = BAR})
CountBars(s) == CountBarsFrom(s, 1)

\* the end of the run of bytes other than '|' that starts at byte i
RunEnd(s, i) ==
    IF \E j \in i..Len(s) : s[j] = BAR
    THEN (CHOOSE j \in i..Len(s) : s[j] = BAR /\ \A k \in i..(j - 1) : s[k] # BAR) - 1
    ELSE Len(s)

\* the tokens strtok_r(input, "|") hands out in turn, from byte i on: it
\* skips the '|' bytes before a token, and a token is a maximal run of other
\* bytes
RECURSIVE StrtokRuns(_, _)
StrtokRuns(s, i) ==
    IF i > Len(s) THEN <<>>
    ELSE IF s[i] = BAR THEN StrtokRuns(s, i + 1)
    ELSE <<SubSeq(s, i, RunEnd(s, i))>> \o StrtokRuns(s, RunEnd(s, i) + 2)

\* the text between consecutive '|' bytes, from byte i on: every '|' ends a
\* segment, an empty one included (what strtok_r does not hand out)
RECURSIVE SplitEvery(_, _)
SplitEvery(s, i) ==
    IF i > Len(s) + 1 THEN <<>>
    ELSE <<SubSeq(s, i, RunEnd(s, i))>> \o SplitEvery(s, RunEnd(s, i) + 2)

\* cmd_strings[0..cmd_idx-1] after the strtok_r loop of main
cmd_strings(input) == StrtokRuns(input, 1)

\* ------------------------------------------------------------ names
tECHO == <<"e", "c", "h", "o">>
tEXIT == <<"e", "x", "i", "t">>
tTYPE == <<"t", "y", "p", "e">>
tPWD == <<"p", "w", "d">>
tCD == <<"c", "d">>
tHISTORY == <<"h", "i", "s", "t", "o", "r", "y">>
tCAT == <<"c", "a", "t">>
tLS == <<"l", "s">>
tNOSUCH == <<"x", "x">>
tA == <<"a">>
tF == <<"f">>
tG == <<"g">>

builtin_cmd == <<tEXIT, tECHO, tTYPE, tPWD, tCD, tHISTORY>>

\* a NULL char*: no argument is this token, whose one element is no character
NULLP == <<"NULL">>

is_builtin(command) == \E i \in 1..CMD_AVAILABLE : builtin_cmd[i] = command

\* ------------------------------------------------------------ find_executable
\* directories, and the value of $PATH that lists some of them
dA == <<"/", "a">>
dB == <<"/", "b">>
dC == <<"/", "c">>
COLON == ":"

RECURSIVE JoinColon(_)
JoinColon(dirs) ==
    IF dirs = <<>> THEN <<>>
    ELSE IF Len(dirs) = 1 THEN dirs[1]
    ELSE dirs[1] \o <<COLON>> \o JoinColon(Tail(dirs))

\* getenv("PATH") in the shell
PATH == JoinColon(<<dA, dB>>)

\* the files of the file system that can be executed, and those that cannot
FsExecutable == { dA \o <<"/">> \o tCAT, dB \o <<"/">> \o tCAT, dB \o <<"/">> \o tLS }
FsPlain == { dA \o <<"/">> \o tLS }

\* access(full_path, X_OK) == 0
access_X_OK(full_path) == full_path \in FsExecutable

\* what fits in a buffer of size bytes: the first size - 1 characters
Fit(str, size) == IF Len(str) > size - 1 THEN SubSeq(str, 1, size - 1) ELSE str

\* strtok(str, ":") and the strtok(NULL, ":") that follow: the runs of
\* characters other than ':' from index i on, in order
RECURSIVE StrtokColon(_, _)
StrtokColon(str, i) ==
    IF \A j \in i..Len(str) : str[j] = COLON THEN <<>>
    ELSE With(CHOOSE j \in i..Len(str) :
                  str[j] # COLON /\ \A k \in i..(j - 1) : str[k] = COLON, LAMBDA from :
         With(CHOOSE j \in from..Len(str) :
                  /\ j = Len(str) \/ str[j + 1] = COLON
                  /\ \A k \in from..(j - 1) : str[k + 1] # COLON, LAMBDA to :
         <<SubSeq(str, from, to)>> \o StrtokColon(str, to + 1)))

\* the while loop over the directories from the k-th on: the first
\* dir/command, as it fits in full_path, that can be executed; NULLP when
\* there is none
RECURSIVE FindFrom(_, _, _)
FindFrom(dirs, command, k) ==
    IF k > Len(dirs) THEN NULLP
    ELSE With(Fit(dirs[k] \o <<"/">> \o command, MAX_CMD_LEN), LAMBDA full_path :
         IF access_X_OK(full_path) THEN full_path ELSE FindFrom(dirs, command, k + 1))

\* find_executable(command) with path_env what getenv("PATH") returns
\* (NULLP when PATH is unset): the value is copied into path_copy, as much
\* of it as fits
FindIn(path_env, command) ==
    IF path_env = NULLP THEN NULLP
    ELSE FindFrom(StrtokColon(Fit(path_env, MAX_CMD_LEN), 1), command, 1)

find_executable(command) == FindIn(PATH, command)

\* ------------------------------------------------------------ redirection scan
opGT == <<">">>
op1GT == <<"1", ">">>
opGTGT == <<">", ">">>
op1GTGT == <<"1", ">", ">">>
op2GT == <<"2", ">">>
op2GTGT == <<"2", ">", ">">>
RedirOps == {opGT, op1GT, opGTGT, op1GTGT, op2GT, op2GTGT}

\* which of main's four variables the operator sets
RedirVar(op) ==
    IF op \in {opGT, op1GT} THEN "redirect_file"
    ELSE IF op \in {opGTGT, op1GTGT} THEN "append_file"
    ELSE IF op = op2GT THEN "redirect_stderr_file"
    ELSE "append_stderr_file"

\* no redirection: the four variables are NULL
NoRedir ==
    [redirect_file |-> NULLP, redirect_stderr_file |-> NULLP,
     append_file |-> NULLP, append_stderr_file |-> NULLP]

\* the index (from 1) of the first operator token of args from i on, 0 if none
FirstOp(args, i) ==
    IF \E j \in i..Len(args) : args[j] \in RedirOps
    THEN CHOOSE j \in i..Len(args) :
             args[j] \in RedirOps /\ \A k \in i..(j - 1) : args[k] \notin RedirOps
    ELSE 0

\* a pointer to a string that has been freed
FREED == <<"FREED">>

\* the strings a callee finds in argv: those before the first NULL
UpToNull(array) ==
    IF \E j \in 1..Len(array) : array[j] = NULLP
    THEN SubSeq(array, 1, (CHOOSE j \in 1..Len(array) :
                               array[j] = NULLP /\ \A k \in 1..(j - 1) : array[k] # NULLP) - 1)
    ELSE array

\* a faulty variant: argc is lowered, and argv[i] is left as it is
CutArgc(array, i) == [array EXCEPT ![i + 1] = FREED]

\* free(argv[i]); free(argv[i + 1]); argv[i] = NULL, for the operator at
\* index i (from 1)
CutAt(array, i) == [array EXCEPT ![i] = NULLP, ![i + 1] = FREED]

\* a faulty variant: the for loop does not `break` at an operator, so every
\* operator of the line with a token after it sets its variable
RECURSIVE RedirFrom(_, _, _)
RedirFrom(args, i, r) ==
    IF i >= Len(args) THEN r
    ELSE IF args[i] \in RedirOps
    THEN RedirFrom(args, i + 2, [r EXCEPT ![RedirVar(args[i])] = args[i + 1]])
    ELSE RedirFrom(args, i + 1, r)

ScanEvery(args) ==
    LET i == FirstOp(args, 1)
    IN  IF i = 0
        THEN [res |-> "none", argv |-> UpToNull(args \o <<NULLP>>), redir |-> NoRedir,
              op |-> 0, array |-> args \o <<NULLP>>]
        ELSE IF i + 1 <= Len(args)
        THEN [res |-> "ok", argv |-> UpToNull(CutAt(args \o <<NULLP>>, i)),
              redir |-> RedirFrom(args, i, NoRedir),
              op |-> i, array |-> CutAt(args \o <<NULLP>>, i)]
        ELSE [res |-> "missing", argv |-> <<>>, redir |-> NoRedir, op |-> i,
              array |-> [j \in 1..(Len(args) + 1) |-> NULLP]]

\* the for loop of main over argv: at the first operator token either the
\* next token becomes the target and argv is cut before the operator
\* ("ok"), or there is no next token ("missing": the message, free_argv,
\* which leaves every argv[i] NULL, free(input), and `continue`, which
\* resumes the for loop, past its end); "none" without an operator.
\* array: argv[0..] as the loop leaves it; argv: the strings up to the
\* first NULL
ScanRedirect(args) ==
    LET i == FirstOp(args, 1)
    IN  IF i = 0
        THEN [res |-> "none", argv |-> UpToNull(args \o <<NULLP>>), redir |-> NoRedir,
              op |-> 0, array |-> args \o <<NULLP>>]
        ELSE IF i + 1 <= Len(args)
        THEN [res |-> "ok", argv |-> UpToNull(CutAt(args \o <<NULLP>>, i)),
              redir |-> [NoRedir EXCEPT ![RedirVar(args[i])] = args[i + 1]],
              op |-> i, array |-> CutAt(args \o <<NULLP>>, i)]
        ELSE [res |-> "missing", argv |-> <<>>, redir |-> NoRedir, op |-> i,
              array |-> [j \in 1..(Len(args) + 1) |-> NULLP]]

\* ------------------------------------------------------------ descriptors
Fds == 0..(MaxFd - 1)
STDIN_FILENO == 0
STDOUT_FILENO == 1
STDERR_FILENO == 2

\* what a descriptor refers to; ap is the O_APPEND flag of the open file
CLOSED == [k |-> "closed", id |-> <<>>, ap |-> FALSE]
TTY == [k |-> "tty", id |-> <<>>, ap |-> FALSE]
FileT(name, ap) == [k |-> "file", id |-> name, ap |-> ap]
PipeR(p) == [k |-> "pipe_r", id |-> <<ToString(p)>>, ap |-> FALSE]
PipeW(p) == [k |-> "pipe_w", id |-> <<ToString(p)>>, ap |-> FALSE]

\* the table the shell starts with
InitFds == [n \in Fds |-> IF n <= 2 THEN TTY ELSE CLOSED]
NoFds == [n \in Fds |-> CLOSED]

IsOpen(t, fd) == fd \in Fds /\ t[fd].k # "closed"

\* the lowest descriptor not in use, -1 when the table is full
LowestFree(t) ==
    IF \E n \in Fds : ~IsOpen(t, n)
    THEN CHOOSE n \in Fds : ~IsOpen(t, n) /\ \A m \in Fds : m < n => IsOpen(t, m)
    ELSE -1

\* dup(fd): the new descriptor (-1 on EBADF or EMFILE) and the table
Dup(t, fd) ==
    LET n == LowestFree(t)
    IN  IF ~IsOpen(t, fd) \/ n = -1 THEN [fd |-> -1, t |-> t]
        ELSE [fd |-> n, t |-> [t EXCEPT ![n] = t[fd]]]

\* dup2(old, new), old open
Dup2(t, old, new) == IF IsOpen(t, old) /\ new \in Fds THEN [t EXCEPT ![new] = t[old]] ELSE t

\* close(fd)
Close(t, fd) == IF fd \in Fds THEN [t EXCEPT ![fd] = CLOSED] ELSE t

\* the files open() cannot open for writing (a directory, no permission)
Unwritable == {tG}

\* the file system: the files that exist, and the bytes each one holds
NoFiles == [x \in {} |-> <<>>]
Exists(fs, name) == name \in DOMAIN fs
Store(fs, name, content) ==
    [x \in (DOMAIN fs) \cup {name} |-> IF x = name THEN content ELSE fs[x]]

\* a faulty variant: the file is never truncated
open_keep(fs, filename, append) ==
    IF filename \in Unwritable \/ Exists(fs, filename) THEN fs
    ELSE Store(fs, filename, <<>>)

\* open(filename, flags, 0644) with flags O_WRONLY | O_CREAT and O_TRUNC or
\* O_APPEND: the file is there afterwards, and it is empty unless O_APPEND
\* found it there
open_write(fs, filename, append) ==
    IF filename \in Unwritable THEN fs
    ELSE IF append /\ Exists(fs, filename) THEN fs
    ELSE Store(fs, filename, <<>>)

\* apply_redirection(filename, target_fd, flags): 0, the table with
\* target_fd on the file and the file system after open(); or -1 (open
\* failed) and both as they were
apply_redirection(t, fs, filename, target_fd, append) ==
    IF filename = NULLP THEN [rc |-> 0, t |-> t, fs |-> fs]
    ELSE LET fd == IF filename \in Unwritable THEN -1 ELSE LowestFree(t)
         IN  IF fd = -1 THEN [rc |-> -1, t |-> t, fs |-> fs]
             ELSE LET t1 == [t EXCEPT ![fd] = FileT(filename, append)]
                      t2 == Dup2(t1, fd, target_fd)
                  IN  [rc |-> 0, t |-> Close(t2, fd),
                       fs |-> open_write(fs, filename, append)]

\* ------------------------------------------------------------ execute_builtin
\* the arguments joined by single spaces, as echo prints them
RECURSIVE JoinSpRange(_, _, _)
JoinSpRange(ts, a, b) ==
    IF a > b THEN <<>>
    ELSE IF a = b THEN ts[a]
    ELSE JoinSpRange(ts, a, (a + b) \div 2) \o <<SP>> \o JoinSpRange(ts, ((a + b) \div 2) + 1, b)
JoinSp(ts) == JoinSpRange(ts, 1, Len(ts))

Digits == <<"0", "1", "2", "3", "4", "5", "6", "7", "8", "9">>
DigitVal(c) == (CHOOSE d \in 1..10 : Digits[d] = c) - 1
IsDigit(c) == \E d \in 1..10 : Digits[d] = c

\* atoi on a token: the leading digits, 0 when there are none
RECURSIVE AtoiFrom(_, _, _)
AtoiFrom(s, i, acc) ==
    IF i <= Len(s) /\ IsDigit(s[i]) THEN AtoiFrom(s, i + 1, acc * 10 + DigitVal(s[i]))
    ELSE acc
atoi(s) ==
    LET i == BlankRun(s, -1) + 1
    IN  IF CharAt(s, i - 1) = "-" THEN 0 - AtoiFrom(s, i + 1, 0)
        ELSE IF CharAt(s, i - 1) = "+" THEN AtoiFrom(s, i + 1, 0)
        ELSE AtoiFrom(s, i, 0)

\* a faulty variant: the whole int is the status
ExitStatusWhole(code) == code

\* exit(code): the status the parent sees is the low eight bits
ExitStatus(code) == code % 256

\* one write(2) of a process: the descriptor, what it referred to, the text
Wr(t, fd, text) == [fd |-> fd, to |-> t[fd], text |-> text]

\* what the writes leave in the files: a write on a descriptor that is a
\* file puts its text at the end of that file
RECURSIVE WriteAll(_, _)
WriteAll(fs, out) ==
    IF out = <<>> THEN fs
    ELSE WriteAll(IF Head(out).to.k = "file" /\ Exists(fs, Head(out).to.id)
                  THEN Store(fs, Head(out).to.id, fs[Head(out).to.id] \o Head(out).text)
                  ELSE fs,
                  Tail(out))

\* ------------------------------------------------------------ the environment
\* directories, and the names used for files and environment values
tHOME == <<"/", "h">>
tD == <<"/", "d">>
tNODIR == <<"/", "n">>
tTILDE == <<"~">>
tH == <<"h">>
tMINUS_R == <<"-", "r">>
tMINUS_W == <<"-", "w">>
tMINUS_A == <<"-", "a">>
Dirs == { <<"/">>, tHOME, tD }

\* the lines of a file, and the file that holds some lines
RECURSIVE Lines(_)
Lines(content) ==
    IF content = <<>> THEN <<>>
    ELSE LET k == IF \E j \in 1..Len(content) : content[j] = NL
                  THEN CHOOSE j \in 1..Len(content) :
                           content[j] = NL /\ \A m \in 1..(j - 1) : content[m] # NL
                  ELSE Len(content) + 1
         IN  <<SubSeq(content, 1, k - 1)>> \o Lines(SubSeq(content, k + 1, Len(content)))

RECURSIVE Unlines(_)
Unlines(entries) ==
    IF entries = <<>> THEN <<>>
    ELSE Head(entries) \o <<NL>> \o Unlines(Tail(entries))

\* what a process works in: the working directory, $HOME and $HISTFILE
\* (NULLP when unset), readline's history list, the two counters of the
\* shell, and the file system
Env0 ==
    [cwd |-> <<"/">>, HOME |-> tHOME, HISTFILE |-> NULLP, history |-> <<>>,
     last_appended_count |-> 0, initial_history_length |-> 0, files |-> NoFiles]

history_length(env) == Len(env.history)
history_base == 1

\* add_history(input)
add_history(env, input) == [env EXCEPT !.history = Append(@, input)]

\* read_history(filename): the lines of the file are added to the list; an
\* error when the file cannot be read
read_history(env, filename) ==
    IF ~Exists(env.files, filename) THEN [rc |-> 1, env |-> env]
    ELSE [rc |-> 0, env |-> [env EXCEPT !.history = @ \o Lines(env.files[filename])]]

\* write_history(filename): the file holds the whole list
write_history(env, filename) ==
    IF filename \in Unwritable THEN [rc |-> 1, env |-> env]
    ELSE [rc |-> 0,
          env |-> [env EXCEPT !.files = Store(@, filename, Unlines(env.history))]]

\* append_history(nelements, filename): the last nelements entries are put
\* at the end of the file, which has to exist
append_history(env, nelements, filename) ==
    IF ~Exists(env.files, filename) \/ filename \in Unwritable THEN [rc |-> 1, env |-> env]
    ELSE [rc |-> 0,
          env |-> [env EXCEPT !.files =
                      Store(@, filename,
                            env.files[filename]
                              \o Unlines(SubSeq(env.history,
                                                history_length(env) - nelements + 1,
                                                history_length(env))))]]

load_history_from_histfile(env) ==
    IF env.HISTFILE = NULLP THEN env
    ELSE With(read_history(env, env.HISTFILE).env, LAMBDA e :
         [e EXCEPT !.initial_history_length = history_length(e),
                   !.last_appended_count = history_length(e)])

save_history_to_histfile(env) ==
    IF env.HISTFILE = NULLP THEN env
    ELSE IF env.initial_history_length > 0
    THEN IF history_length(env) - env.last_appended_count > 0
         THEN append_history(env, history_length(env) - env.last_appended_count,
                             env.HISTFILE).env
         ELSE env
    ELSE write_history(env, env.HISTFILE).env

\* chdir(path)
chdir(env, path) ==
    IF path \in Dirs THEN [rc |-> 0, env |-> [env EXCEPT !.cwd = path]]
    ELSE [rc |-> -1, env |-> env]

\* ------------------------------------------------------------ builtin bodies
\* what a builtin body does: the result, the writes, whether (and with what
\* status) the process exits, the undefined behaviour run into, and the
\* environment afterwards
Did(result, out, env) ==
    [result |-> result, out |-> out, exits |-> FALSE, code |-> 0, ub |-> {}, env |-> env]

\* the cd branch.  With HOME unset target_dir stays NULL, result is 1, and
\* control goes on to chdir(NULL) and fprintf("%s", NULL): in the build
\* that survives them chdir fails
CdBody(argv, t, env) ==
    With(IF Len(argv) >= 2 THEN argv[2] ELSE NULLP, LAMBDA a1 :
    With(IF a1 = NULLP \/ a1 = tTILDE THEN env.HOME ELSE a1, LAMBDA target_dir :
    IF target_dir = NULLP
    THEN [Did(1, <<Wr(t, STDERR_FILENO, <<"cd: HOME not set">>),
                   Wr(t, STDERR_FILENO, <<"cd: (null): ">>)>>, env)
            EXCEPT !.ub = {"chdir(NULL)"}]
    ELSE With(chdir(env, target_dir), LAMBDA c :
         IF c.rc # 0
         THEN Did(1, <<Wr(t, STDERR_FILENO, <<"cd: ">> \o target_dir)>>, env)
         ELSE Did(0, <<>>, c.env))))

\* the entries history prints, from index start (from 0) on
RECURSIVE HistoryList(_, _, _)
HistoryList(t, env, i) ==
    IF i >= history_length(env) THEN <<>>
    ELSE <<Wr(t, STDOUT_FILENO,
              <<ToString(i + history_base), SP>> \o env.history[i + 1] \o <<NL>>)>>
             \o HistoryList(t, env, i + 1)

\* the history branch
HistoryBody(argv, t, env) ==
    With(IF Len(argv) >= 2 THEN argv[2] ELSE NULLP, LAMBDA a1 :
    With(IF Len(argv) >= 3 THEN argv[3] ELSE NULLP, LAMBDA a2 :
    With(Wr(t, STDERR_FILENO, <<"history: ">> \o a1 \o a2), LAMBDA complaint :
    IF a1 \in {tMINUS_R, tMINUS_W, tMINUS_A} /\ a2 = NULLP
    THEN Did(1, <<complaint>>, env)
    ELSE IF a1 = tMINUS_R
    THEN With(read_history(env, a2), LAMBDA h :
         IF h.rc # 0 THEN Did(1, <<complaint>>, env) ELSE Did(0, <<>>, h.env))
    ELSE IF a1 = tMINUS_W
    THEN With(write_history(env, a2), LAMBDA h :
         IF h.rc # 0 THEN Did(1, <<complaint>>, env)
         ELSE Did(0, <<>>, [h.env EXCEPT !.last_appended_count = history_length(env)]))
    ELSE IF a1 = tMINUS_A
    THEN With(history_length(env) - env.last_appended_count, LAMBDA new_entries :
         IF new_entries > 0
         THEN With(append_history(env, new_entries, a2), LAMBDA h :
              IF h.rc # 0 THEN Did(1, <<complaint>>, env)
              ELSE Did(0, <<>>, [h.env EXCEPT !.last_appended_count = history_length(env)]))
         ELSE Did(0, <<>>, env))
    ELSE IF a1 # NULLP
    THEN With(history_length(env) - atoi(a1), LAMBDA start :
         Did(0, HistoryList(t, env, IF start < 0 THEN 0 ELSE start), env))
    ELSE Did(0, HistoryList(t, env, 0), env))))

\* the body of execute_builtin, run on the table t in the environment env
BuiltinBody(argv, t, env) ==
    LET a1 == IF Len(argv) >= 2 THEN argv[2] ELSE NULLP
    IN  IF argv[1] = tEXIT
        THEN [Did(0, <<>>, save_history_to_histfile(env))
                EXCEPT !.exits = TRUE,
                       !.code = IF a1 = NULLP THEN ExitStatus(0)
                                ELSE ExitStatus(atoi(a1))]
        ELSE IF argv[1] = tECHO
        THEN Did(0, <<Wr(t, STDOUT_FILENO, JoinSp(Tail(argv)) \o <<NL>>)>>, env)
        ELSE IF argv[1] = tTYPE
        THEN IF a1 = NULLP
             THEN Did(1, <<Wr(t, STDERR_FILENO, <<"type: missing argument">>)>>, env)
             ELSE Did(0, <<Wr(t, STDOUT_FILENO,
                              IF is_builtin(a1) THEN a1 \o <<" is a shell builtin">>
                              ELSE IF find_executable(a1) # NULLP
                                   THEN a1 \o <<" is ">> \o find_executable(a1)
                                   ELSE a1 \o <<": not found">>)>>, env)
        ELSE IF argv[1] = tPWD
        THEN Did(0, <<Wr(t, STDOUT_FILENO, env.cwd \o <<NL>>)>>, env)
        ELSE IF argv[1] = tCD THEN CdBody(argv, t, env)
        ELSE IF argv[1] = tHISTORY THEN HistoryBody(argv, t, env)
        ELSE Did(0, <<>>, env)

\* a faulty variant: the saved descriptors are closed without being put back
RestoreFdsCloseOnly(t, original_stdout, original_stderr) ==
    Close(Close(t, original_stdout), original_stderr)

\* the end of execute_builtin: dup2 the saved descriptors back and close them
RestoreFds(t, original_stdout, original_stderr) ==
    LET t1 == IF original_stdout # -1
              THEN Close(Dup2(t, original_stdout, STDOUT_FILENO), original_stdout)
              ELSE t
    IN  IF original_stderr # -1
        THEN Close(Dup2(t1, original_stderr, STDERR_FILENO), original_stderr)
        ELSE t1

\* execute_builtin(argv, redirect_file, redirect_stderr_file, append_file,
\* append_stderr_file) on the table t in the environment env.  ran: the body
\* was reached; ret: the value returned; t, env: the table and the
\* environment on return (or at exit)
execute_builtin(argv, r, t, env) ==
    LET early(a) == [ran |-> FALSE, ret |-> 1,
                     out |-> <<Wr(a.t, STDERR_FILENO, <<"open failed">>)>>,
                     exits |-> FALSE, code |-> 0, ub |-> {}, t |-> a.t,
                     env |-> [env EXCEPT !.files =
                                 WriteAll(a.fs, <<Wr(a.t, STDERR_FILENO, <<"open failed">>)>>)]]
        body(a4, o1, o2) ==
            With(BuiltinBody(argv, a4.t, [env EXCEPT !.files = a4.fs]), LAMBDA b :
                [ran |-> TRUE, ret |-> b.result, out |-> b.out, exits |-> b.exits,
                 code |-> b.code, ub |-> b.ub,
                 t |-> IF b.exits THEN a4.t ELSE RestoreFds(a4.t, o1, o2),
                 env |-> [b.env EXCEPT !.files = WriteAll(@, b.out)]])
    IN  With(IF r.redirect_file # NULLP \/ r.append_file # NULLP
             THEN Dup(t, STDOUT_FILENO) ELSE [fd |-> -1, t |-> t], LAMBDA d1 :
        With(IF r.redirect_stderr_file # NULLP \/ r.append_stderr_file # NULLP
             THEN Dup(d1.t, STDERR_FILENO) ELSE [fd |-> -1, t |-> d1.t], LAMBDA d2 :
        With(apply_redirection(d2.t, env.files, r.redirect_file, STDOUT_FILENO, FALSE), LAMBDA a1 :
        IF a1.rc = -1 THEN early(a1) ELSE
        With(apply_redirection(a1.t, a1.fs, r.append_file, STDOUT_FILENO, TRUE), LAMBDA a2 :
        IF a2.rc = -1 THEN early(a2) ELSE
        With(apply_redirection(a2.t, a2.fs, r.redirect_stderr_file, STDERR_FILENO, FALSE), LAMBDA a3 :
        IF a3.rc = -1 THEN early(a3) ELSE
        With(apply_redirection(a3.t, a3.fs, r.append_stderr_file, STDERR_FILENO, TRUE), LAMBDA a4 :
        IF a4.rc = -1 THEN early(a4) ELSE body(a4, d1.fd, d2.fd)))))))

\* ------------------------------------------------------------ state
VARIABLES
    pc,         \* where the shell process is: "prompt" (in readline), in
                \* execute_pipeline ("pipes", "fork", "wait"), "done" (at the
                \* end of the loop body, the line handled), "exited", "crashed"
    line,       \* the line readline returned last
    fds,        \* the descriptor table of the shell process
    faults,     \* the fork failures the environment may still inject
    commands,   \* execute_pipeline's commands[0..num_commands-1]
    pipes,      \* the pipes[i] created so far: [r, w] descriptor numbers, id
    idx,        \* the loop index i of execute_pipeline's fork and wait loops
    kids,       \* the child processes of the current line, by stage
    ev,         \* the account of the current line: what was parsed, run,
                \* reported and returned
    p_line,     \* tokenizer specification: the line typed so far
    p_words,    \* ... the arguments it spells, the last one still open
    p_mode,     \* ... "out", "sq" or "dq": where the typing stands
    p_quoted,   \* ... whether a quote was typed
    p_res,      \* ... what parse_command returned for p_line
    env,        \* the environment of the shell process: working directory,
                \* history list and counters, files
    prev,       \* ... as it was when the line handled last was read
    f_in,       \* path search specification: whether PATH is set, the
                \* directories it lists, the command looked for
    f_res,      \* ... what find_executable returned
    mark        \* a history variable for the properties: the length of the
                \* history list at the last load of a history file (at
                \* startup, by history -r) or successful history -w or -a

shellVars == <<pc, line, fds, faults, commands, pipes, idx, kids, ev>>
parseVars == <<p_line, p_words, p_mode, p_quoted, p_res>>
envVars == <<env, prev, mark>>
findVars == <<f_in, f_res>>
vars == <<pc, line, fds, faults, commands, pipes, idx, kids, ev,
          p_line, p_words, p_mode, p_quoted, p_res, env, prev, mark, f_in, f_res>>

\* execute_pipeline returns void, and main drops what the others return
VOID == -1

Stages == 0..(MaxStages - 1)

NoProg == [argv |-> <<>>, in |-> CLOSED, out |-> CLOSED, err |-> CLOSED]
\* at: the table the process had when its program or builtin started; ret:
\* what execute_builtin returned in it
NoKid ==
    [st |-> "none", t |-> NoFds, at |-> NoFds, prog |-> NoProg, status |-> VOID, ret |-> VOID]
NoKids == [i \in Stages |-> NoKid]

\* the heap blocks of a line: the line readline returned, the array
\* commands[j] of pipeline stage j, the k-th argument string of stage j
\* (stage 0 is the single command), the strdup'ed redirection target
INPUT == <<"input">>
TARGET == <<"target">>
ArgvBlock(j) == <<"argv", j>>
ArgBlock(j, k) == <<"arg", j, k>>

\* the argument strings argv[from..to] (indices from 1) of stage j, in order
ArgBlocks(j, from, to) == [k \in 1..(to - from + 1) |-> ArgBlock(j, from + k - 1)]

\* the elements of a sequence
Range(seq) == { seq[k] : k \in 1..Len(seq) }

\* nothing allocated, nothing freed
NoHeap == [allocs |-> {}, frees |-> <<>>]

\* the account of a line nothing has happened for yet
NoEv ==
    [call |-> "none",       \* execute_builtin, execute_external or execute_pipeline
     rc |-> <<>>,           \* what each parse_command call returned
     args |-> <<>>,         \* the argv handed to the builtin or program
     array |-> <<>>,        \* argv[0..] as main's scan left it
     redir |-> NoRedir,     \* the redirection variables at that call
     nseg |-> 0,            \* the tokens strtok_r handed out
     ncmd |-> 0,            \* num_commands
     builtins |-> 0,        \* builtin bodies run in the shell process
     forks |-> 0,           \* fork() calls that made a child
     waits |-> 0,           \* waitpid() calls that collected a child
     npipes |-> 0,          \* pipe() calls that made a pipe
     errs |-> {},           \* the errors reported
     ub |-> {},             \* the undefined behaviour run into
     out |-> <<>>,          \* the writes of the shell process
     ret |-> VOID,          \* what the execute_ function returned
     code |-> VOID,         \* the status the shell process exited with
     wstatus |-> VOID,      \* the status word waitpid stored
     heap |-> NoHeap,       \* the blocks allocated for the line, and the
                            \* free() calls made on them, in order
     before |-> InitFds]    \* the shell's table when the line was read

\* ------------------------------------------------------------ input lines
RECURSIVE JoinBar(_)
JoinBar(ss) ==
    IF ss = <<>> THEN <<>>
    ELSE IF Len(ss) = 1 THEN ss[1]
    ELSE ss[1] \o <<BAR>> \o JoinBar(Tail(ss))

\* the commands, arguments and redirections of the single-command lines
LineCmds == {tECHO, tTYPE, tCAT, tNOSUCH, tEXIT}
LineArgs == {<<>>, <<tA>>, << <<SQ, "a">> >>, << <<DQ, "a">> >>}
LineRedirs ==
    {<<>>} \cup {<<op>> : op \in RedirOps}
           \cup {<<op, f>> : op \in RedirOps, f \in {tF, tG}}

\* echo and MAX_ARGS-2 arguments, then a quote that is never closed
LongLine == tECHO \o Repeat(<<SP, "a">>, MAX_ARGS - 2) \o <<SP, SQ, "b">>

\* more '|' than MAX_PIPELINE_CMDS - 1
WideLine == Repeat(<<"a", BAR>>, MAX_PIPELINE_CMDS)

\* lines that go on after the target: more arguments, a second operator
TrailLines ==
    { JoinSp(<<tECHO, tA, opGT, tF, <<"b">> >>),
      JoinSp(<<tLS, op2GTGT, tF, tA>>),
      JoinSp(<<tECHO, tA, opGT, tF, opGT, <<"k">> >>),
      JoinSp(<<tECHO, tA, opGTGT, tF, op1GT, <<"k">> >>),
      JoinSp(<<tTYPE, op2GT, tF, op2GTGT, <<"k">> >>),
      JoinSp(<<tLS, opGT, tF, opGT, <<"k">> >>),
      JoinSp(<<tECHO, tA, opGT, tF, op2GT, <<"k">> >>) }

SingleLines ==
    { JoinSp(<<c>> \o a \o r) : c \in LineCmds, a \in LineArgs, r \in LineRedirs }
        \cup { <<SP>>, JoinSp(<<opGT, tF>>), LongLine }
        \cup TrailLines

\* the segments of the pipeline lines
ExecSegs == { tLS, JoinSp(<<tCAT, opGT, tF>>), JoinSp(<<tECHO, tA>>), tNOSUCH }
BadSegs == { <<>>, <<SP>>, JoinSp(<<tECHO, <<SQ, "a">> >>) }
PipeSegs == ExecSegs \cup BadSegs

\* the pipelines of 2..MaxStages stages that parse, and the lines of two
\* and three segments some of which tokenize to nothing or end in a quote
SegSeqs(S, n) == [1..n -> S]

PipeLines ==
    { JoinBar(ss) : ss \in UNION { SegSeqs(ExecSegs, n) : n \in 2..MaxStages } }
        \cup { JoinBar(ss) : ss \in SegSeqs({tLS} \cup BadSegs, 2) \cup SegSeqs({tLS} \cup BadSegs, 3) }
        \cup { WideLine }

\* the lines of the sessions about redirection: a builtin and a program
\* that write on stdout, a builtin and a program that write on stderr
tX == <<"x">>
OutCmds == { JoinSp(<<tECHO, tA, <<"b">>, <<"c">> >>), tLS }
ErrCmds == { tTYPE, JoinSp(<<tCAT, tX>>) }
FileLines ==
    { JoinSp(<<c, op, tF>>) : c \in OutCmds, op \in {opGT, op1GT, opGTGT, op1GTGT} }
        \cup { JoinSp(<<c, op, tF>>) : c \in ErrCmds, op \in {op2GT, op2GTGT} }

\* the lines of the sessions about the history list and about exit
tQ == <<"q">>
tO == <<"o">>
HistLines ==
    { JoinSp(<<tHISTORY, f, tQ>>) : f \in {tMINUS_R, tMINUS_W, tMINUS_A} }
        \cup { JoinSp(<<tECHO, tA>>) }
        \cup { tEXIT, JoinSp(<<tEXIT, <<"3">> >>), JoinSp(<<tEXIT, <<"2", "5", "9">> >>),
               JoinSp(<<tEXIT, <<"-", "1">> >>), JoinSp(<<tEXIT, tX>>) }

\* the lines of the sessions about the working directory
DirLines ==
    { tCD, tPWD, JoinSp(<<tCD, tTILDE>>), JoinSp(<<tCD, tD>>), JoinSp(<<tCD, tNODIR>>) }

SessionLines == FileLines \cup HistLines \cup DirLines

\* what an uninitialised cmd_strings[i] may point at: the bytes of some
\* earlier line
StaleSegs == { <<>>, tCAT }

\* parse_command on every string the shell parses, computed once
ParsedStrings == SingleLines \cup PipeSegs \cup StaleSegs \cup SessionLines
ParseTable == [s \in ParsedStrings |-> parse_command(s)]
Parsed(s) == IF s \in ParsedStrings THEN ParseTable[s] ELSE parse_command(s)

\* ------------------------------------------------------------ a single command
\* the four apply_redirection calls of execute_external's child, in order,
\* stopping at the first that fails
ChildRedirect(t, fs, r) ==
    With(apply_redirection(t, fs, r.redirect_file, STDOUT_FILENO, FALSE), LAMBDA a1 :
    IF a1.rc = -1 THEN a1 ELSE
    With(apply_redirection(a1.t, a1.fs, r.append_file, STDOUT_FILENO, TRUE), LAMBDA a2 :
    IF a2.rc = -1 THEN a2 ELSE
    With(apply_redirection(a2.t, a2.fs, r.redirect_stderr_file, STDERR_FILENO, FALSE), LAMBDA a3 :
    IF a3.rc = -1 THEN a3 ELSE
    apply_redirection(a3.t, a3.fs, r.append_stderr_file, STDERR_FILENO, TRUE))))

\* what a process was started with: its arguments and standard streams
ProgOf(argv, t) ==
    [argv |-> argv, in |-> t[STDIN_FILENO], out |-> t[STDOUT_FILENO], err |-> t[STDERR_FILENO]]

\* what the programs of the file system write when run on the table t: ls
\* lists a name on its stdout, cat complains on its stderr about a file it
\* is given and cannot read
ProgramWrites(argv, t) ==
    IF argv[1] = tLS THEN <<Wr(t, STDOUT_FILENO, <<"f", NL>>)>>
    ELSE IF argv[1] = tCAT /\ Len(argv) >= 2
    THEN <<Wr(t, STDERR_FILENO, <<"c", "a", "t", ":", NL>>)>>
    ELSE <<>>

\* the status word waitpid stores, and the macros that read it
SIGKILL == 9
W_EXITCODE(code) == code * 256
W_TERMSIG(sig) == sig
WIFEXITED(status) == status % 128 = 0
WEXITSTATUS(status) == (status \div 256) % 256
WaitStatuses == { W_EXITCODE(0), W_EXITCODE(1), W_TERMSIG(SIGKILL) }

\* a faulty variant: the status of a child that was killed is read as an
\* exit status
StatusToReturnAlways(status) == WEXITSTATUS(status)

\* the end of execute_external's parent branch
StatusToReturn(status) == IF WIFEXITED(status) THEN WEXITSTATUS(status) ELSE 1

\* how a child ended, as the kids record keeps it: the exit status, or the
\* negated signal number
EndOf(status) == IF WIFEXITED(status) THEN WEXITSTATUS(status) ELSE 0 - (status % 128)

\* execute_external(argv, ...) in a shell whose table is t and environment
\* env: the child of a successful fork runs to its end (the program, once
\* started, ends with the status word ws) and is waited for.  forkFails:
\* fork() returns -1
execute_external(argv, r, t, ws, forkFails, en) ==
    IF find_executable(argv[1]) = NULLP
    THEN [ret |-> 1, forks |-> 0, waits |-> 0, errs |-> {"NotFound"}, kid |-> NoKid,
          wstatus |-> VOID,
          out |-> <<Wr(t, STDOUT_FILENO, argv[1] \o <<": command not found">>)>>,
          env |-> en]
    ELSE IF forkFails
    THEN [ret |-> 1, forks |-> 0, waits |-> 0, errs |-> {"ForkFailed"}, kid |-> NoKid,
          wstatus |-> VOID,
          out |-> <<Wr(t, STDERR_FILENO, <<"fork failed">>)>>, env |-> en]
    ELSE With(ChildRedirect(t, en.files, r), LAMBDA c :
         IF c.rc = -1
         THEN [ret |-> StatusToReturn(W_EXITCODE(1)), forks |-> 1, waits |-> 1,
               errs |-> {"OpenFailed"}, out |-> <<>>, wstatus |-> W_EXITCODE(1),
               kid |-> [st |-> "reaped", t |-> NoFds, at |-> NoFds, prog |-> NoProg, status |-> 1,
                        ret |-> VOID],
               env |-> [en EXCEPT !.files = c.fs]]
         ELSE [ret |-> StatusToReturn(ws), forks |-> 1, waits |-> 1, errs |-> {},
               out |-> <<>>, wstatus |-> ws,
               kid |-> [st |-> "reaped", t |-> NoFds, at |-> c.t, prog |-> ProgOf(argv, c.t),
                        status |-> EndOf(ws), ret |-> VOID],
               env |-> [en EXCEPT !.files = WriteAll(c.fs, ProgramWrites(argv, c.t))]])

\* the heap of one turn of main's loop for a line without '|' whose
\* parse_command returned pr.  allocs: the line, the arguments, the copy of
\* the target; early: the free() calls up to the call of is_builtin (by
\* parse_command on an unclosed quote, by main on an empty command, by the
\* scan on the operator and its target, by the scan's error branch on
\* everything); late: the free() calls after execute_ returns, free_argv
\* over argv[0..argc-1] with argc as the scan left it, the target, the line
SingleHeap(pr) ==
    With(Len(pr.args), LAMBDA n :
    With(FirstOp(pr.args, 1), LAMBDA i :
    IF pr.argc = -1
    THEN [allocs |-> {INPUT} \cup Range(ArgBlocks(0, 1, pr.freed)),
          early |-> ArgBlocks(0, 1, pr.freed) \o <<INPUT>>, late |-> <<>>]
    ELSE IF pr.argc = 0
    THEN [allocs |-> {INPUT}, early |-> <<INPUT>>, late |-> <<>>]
    ELSE IF i = 0
    THEN [allocs |-> {INPUT} \cup Range(ArgBlocks(0, 1, n)), early |-> <<>>,
          late |-> ArgBlocks(0, 1, n) \o <<INPUT>>]
    ELSE IF i + 1 <= n
    THEN [allocs |-> {INPUT, TARGET} \cup Range(ArgBlocks(0, 1, n)),
          early |-> <<ArgBlock(0, i), ArgBlock(0, i + 1)>>,
          late |-> ArgBlocks(0, 1, i - 1) \o <<TARGET, INPUT>>]
    ELSE [allocs |-> {INPUT} \cup Range(ArgBlocks(0, 1, n)),
          early |-> ArgBlocks(0, 1, n) \o <<INPUT>>, late |-> <<INPUT>>]))

\* the end of the loop body: reached unless the process exited or crashed
AfterReturn(late, o) ==
    IF o.pc = "done" THEN [o EXCEPT !.ev.heap.frees = @ \o late] ELSE o

\* one turn of main's loop for a line without '|': parse_command, the
\* redirection scan, execute_builtin or execute_external, the frees.
\* survive: a build in which the undefined behaviour met on the way
\* (is_builtin(NULL), the second free(input), chdir(NULL)) does not end the
\* process
HandleSingle(l, t, ws, forkFails, survive, en) ==
    With(Parsed(l), LAMBDA pr :
    With(SingleHeap(pr), LAMBDA h :
    AfterReturn(h.late,
    With([NoEv EXCEPT !.before = t, !.rc = <<pr.argc>>,
                      !.heap = [allocs |-> h.allocs, frees |-> h.early]], LAMBDA e0 :
    With([pc |-> "done", fds |-> t, ev |-> e0, kid |-> NoKid, forkFailed |-> FALSE,
          env |-> en], LAMBDA idle :
    IF pr.argc = -1
    THEN [idle EXCEPT !.ev = [e0 EXCEPT !.errs = {"UnclosedQuote"},
                                        !.out = <<Wr(t, STDERR_FILENO, <<"Error: Unclosed quote">>)>>]]
    ELSE IF pr.argc = 0 THEN idle
    ELSE With(ScanRedirect(pr.args), LAMBDA sc :
    IF sc.res = "missing"
    THEN [idle EXCEPT !.pc = IF survive THEN "done" ELSE "crashed",
                      !.ev = [e0 EXCEPT !.errs = {"MissingRedirectTarget"},
                                        !.ub = {"is_builtin(NULL)", "double free"},
                                        !.out = <<Wr(t, STDERR_FILENO, <<"Error: No file specified">>)>>]]
    ELSE IF sc.argv = <<>>
    THEN [idle EXCEPT !.pc = IF survive THEN "done" ELSE "crashed",
                      !.ev = [e0 EXCEPT !.redir = sc.redir, !.ub = {"is_builtin(NULL)"}]]
    ELSE IF is_builtin(sc.argv[1])
    THEN With(execute_builtin(sc.argv, sc.redir, t, en), LAMBDA b :
         [idle EXCEPT !.pc = IF b.exits THEN "exited"
                             ELSE IF b.ub # {} /\ ~survive THEN "crashed" ELSE "done",
                      !.fds = b.t,
                      !.env = b.env,
                      !.ev = [e0 EXCEPT !.call = "builtin", !.args = sc.argv,
                                        !.array = sc.array,
                                        !.redir = sc.redir,
                                        !.builtins = IF b.ran THEN 1 ELSE 0,
                                        !.errs = IF b.ran THEN {} ELSE {"OpenFailed"},
                                        !.ub = b.ub,
                                        !.out = b.out,
                                        !.code = IF b.exits THEN b.code ELSE VOID,
                                        !.ret = IF b.exits THEN VOID ELSE b.ret]])
    ELSE With(execute_external(sc.argv, sc.redir, t, ws, forkFails, en), LAMBDA x :
         [idle EXCEPT !.kid = x.kid,
                      !.forkFailed = "ForkFailed" \in x.errs,
                      !.env = x.env,
                      !.ev = [e0 EXCEPT !.call = "external", !.args = sc.argv,
                                        !.array = sc.array,
                                        !.redir = sc.redir, !.forks = x.forks,
                                        !.waits = x.waits, !.errs = x.errs,
                                        !.wstatus = x.wstatus,
                                        !.out = x.out, !.ret = x.ret]])))))))

\* readline returns a line without '|' and main handles it.  What the line
\* does to the environment is not followed here (Turn follows it)
RunSingle(l) ==
    /\ pc = "prompt"
    /\ l # <<>> /\ CountBars(l) = 0
    /\ \E ws \in WaitStatuses, forkFails \in BOOLEAN, survive \in BOOLEAN :
         \E o \in {HandleSingle(l, fds, ws, forkFails, survive, env)} :
             /\ o.forkFailed => faults > 0
             /\ pc' = o.pc
             /\ fds' = o.fds
             /\ ev' = o.ev
             /\ kids' = [NoKids EXCEPT ![0] = o.kid]
             /\ faults' = IF o.forkFailed THEN faults - 1 ELSE faults
    /\ line' = l
    /\ commands' = <<>> /\ pipes' = <<>> /\ idx' = 0
    /\ UNCHANGED <<parseVars, envVars, findVars>>

\* readline returns the empty line: strlen(input) == 0
RunEmpty ==
    /\ pc = "prompt"
    /\ pc' = "done"
    /\ line' = <<>>
    /\ ev' = [NoEv EXCEPT !.before = fds,
                         !.heap = [allocs |-> {INPUT}, frees |-> <<INPUT>>]]
    /\ kids' = NoKids /\ commands' = <<>> /\ pipes' = <<>> /\ idx' = 0
    /\ UNCHANGED <<fds, faults>>
    /\ UNCHANGED <<parseVars, envVars, findVars>>

\* the next turn of while (1): the variables of the loop body are fresh and
\* the shell is in readline again
LoopAgain ==
    /\ pc = "done"
    /\ pc' = "prompt"
    /\ line' = <<>> /\ ev' = NoEv
    /\ kids' = NoKids /\ commands' = <<>> /\ pipes' = <<>> /\ idx' = 0
    /\ UNCHANGED <<fds, faults>>
    /\ UNCHANGED <<parseVars, envVars, findVars>>

\* readline returns NULL at end of input: exit(0)
ReadEOF ==
    /\ pc = "prompt"
    /\ pc' = "exited"
    /\ UNCHANGED <<line, fds, faults, commands, pipes, idx, kids, ev>>
    /\ UNCHANGED <<parseVars, envVars, findVars>>

\* ------------------------------------------------------------ a pipeline line
\* the parse loop of main over the segments from j on: parse_command on each
\* in turn, stopping at the first that returns argc <= 0.  at: the segment
\* it stopped at; freed: the arguments parse_command freed there
RECURSIVE ParseSegs(_, _)
ParseSegs(segs, j) ==
    IF j > Len(segs) THEN [ok |-> TRUE, rc |-> <<>>, cmds |-> <<>>, at |-> 0, freed |-> 0]
    ELSE With(Parsed(segs[j]), LAMBDA pr :
         IF pr.argc <= 0
         THEN [ok |-> FALSE, rc |-> <<pr.argc>>, cmds |-> <<>>, at |-> j, freed |-> pr.freed]
         ELSE With(ParseSegs(segs, j + 1), LAMBDA rest :
              [ok |-> rest.ok, rc |-> <<pr.argc>> \o rest.rc,
               cmds |-> <<pr.args>> \o rest.cmds, at |-> rest.at, freed |-> rest.freed]))

\* the blocks of the stages from the j-th (from 1) on, stage by stage: the n
\* arguments of a stage, then its array commands[j - 1]; counts[j] is n
RECURSIVE StageBlocksFrom(_, _)
StageBlocksFrom(counts, j) ==
    IF j > Len(counts) THEN <<>>
    ELSE ArgBlocks(j - 1, 1, counts[j]) \o <<ArgvBlock(j - 1)>> \o StageBlocksFrom(counts, j + 1)

\* the clean-up after execute_pipeline returns: every argument and every
\* array of commands[0..num_commands-1], then the line
PipelineCleanup(cmds) ==
    StageBlocksFrom([j \in 1..Len(cmds) |-> Len(cmds[j])], 1) \o <<INPUT>>

\* the heap when the parse loop has gone through (p.ok), with nothing freed
\* yet, and when it stopped at segment p.at: the arguments parse_command
\* freed there, then commands[0..p.at-1], then the line
ParseLoopHeap(p) ==
    IF p.ok
    THEN [allocs |-> {INPUT} \cup Range(StageBlocksFrom(p.rc, 1)), frees |-> <<>>]
    ELSE With([p.rc EXCEPT ![p.at] = p.freed], LAMBDA counts :
         [allocs |-> {INPUT} \cup Range(StageBlocksFrom(counts, 1)),
          frees |-> ArgBlocks(p.at - 1, 1, p.freed)
                        \o [j \in 1..p.at |-> ArgvBlock(j - 1)] \o <<INPUT>>])

\* the segments main parses: the strtok_r tokens
SegmentsOf(l) == cmd_strings(l)

\* one turn of main's loop for a line with '|', up to the call of
\* execute_pipeline.  stale: what the uninitialised cmd_strings entries hold
\* in this build (read only when strtok_r handed out fewer than num_commands
\* tokens and every token parsed); crash: reading them ends the process
HandlePipeline(l, t, stale, crash) ==
    LET failed(p, e) == [pc |-> "done", commands |-> <<>>,
                         ev |-> [e EXCEPT !.rc = p.rc, !.heap = ParseLoopHeap(p),
                                          !.errs = {"PipelineParse"} \cup
                                                   (IF p.rc[Len(p.rc)] = -1 THEN {"UnclosedQuote"} ELSE {}),
                                          !.out = <<Wr(t, STDERR_FILENO, <<"Error: Failed to parse command in pipeline">>)>>]]
        run(p, e) == [pc |-> "pipes", commands |-> p.cmds,
                      ev |-> [e EXCEPT !.rc = p.rc, !.heap = ParseLoopHeap(p),
                                       !.call = "pipeline"]]
    IN  With(CountBars(l) + 1, LAMBDA num_cmds :
        With(SegmentsOf(l), LAMBDA toks :
        With([NoEv EXCEPT !.before = t, !.ncmd = num_cmds, !.nseg = Len(toks),
                          !.heap = [allocs |-> {INPUT}, frees |-> <<>>]], LAMBDA e0 :
        IF num_cmds > MAX_PIPELINE_CMDS
        THEN [pc |-> "done", commands |-> <<>>,
              ev |-> [e0 EXCEPT !.errs = {"TooManyStages"},
                                !.heap = [allocs |-> {INPUT}, frees |-> <<INPUT>>],
                                !.out = <<Wr(t, STDERR_FILENO, <<"Error: Too many pipeline stages">>)>>]]
        ELSE With(ParseSegs(toks, 1), LAMBDA p1 :
        IF ~p1.ok THEN failed(p1, e0)
        ELSE IF Len(toks) = num_cmds THEN run(p1, e0)
        ELSE With([e0 EXCEPT !.ub = {"uninitialised cmd_strings"}], LAMBDA eu :
        IF crash THEN [pc |-> "crashed", commands |-> <<>>, ev |-> eu]
        ELSE With(ParseSegs(toks \o [j \in 1..(num_cmds - Len(toks)) |-> stale], 1), LAMBDA p2 :
        IF ~p2.ok THEN failed(p2, eu) ELSE run(p2, eu)))))))

\* main splits and parses the line with '|' that readline returned
SplitAndParse(l) ==
    /\ pc = "prompt"
    /\ CountBars(l) > 0
    /\ \E stale \in StaleSegs, crash \in BOOLEAN :
         \E o \in {HandlePipeline(l, fds, stale, crash)} :
             /\ pc' = o.pc
             /\ commands' = o.commands
             /\ ev' = o.ev
    /\ line' = l
    /\ kids' = NoKids /\ pipes' = <<>> /\ idx' = 0
    /\ UNCHANGED <<fds, faults>>

\* readline returns a line with '|' and main splits and parses it.  What
\* readline does to the history is not followed here (PipelineTurn follows
\* it)
StartPipeline(l) ==
    /\ SplitAndParse(l)
    /\ UNCHANGED <<parseVars, envVars, findVars>>

\* ------------------------------------------------------------ execute_pipeline
num_commands == Len(commands)

\* does the table hold the write end / any end of pipe p
HoldsW(t, p) == \E n \in Fds : t[n] = PipeW(p)
HoldsPipe(t, p) == \E n \in Fds : t[n] \in {PipeR(p), PipeW(p)}

\* an identity for a new pipe: one no descriptor of the shell refers to
FreshPipe(t) == CHOOSE p \in 0..MaxFd : ~HoldsPipe(t, p) /\ \A q \in 0..MaxFd : q < p => HoldsPipe(t, q)

\* the first loop: pipe(pipes[i]) for i < n, from the table t with the pipes
\* made so far; a pipe() that finds fewer than two free descriptors fails
\* and the function returns
RECURSIVE CreatePipesFrom(_, _, _)
CreatePipesFrom(t, made, n) ==
    IF n = 0 THEN [ok |-> TRUE, t |-> t, pipes |-> made]
    ELSE LET r == LowestFree(t)
             p == FreshPipe(t)
             t1 == IF r = -1 THEN t ELSE [t EXCEPT ![r] = PipeR(p)]
             w == LowestFree(t1)
         IN  IF r = -1 \/ w = -1 THEN [ok |-> FALSE, t |-> t, pipes |-> made]
             ELSE CreatePipesFrom([t1 EXCEPT ![w] = PipeW(p)],
                                  Append(made, [r |-> r, w |-> w, id |-> p]), n - 1)

CreatePipes ==
    /\ pc = "pipes"
    /\ \E c \in {CreatePipesFrom(fds, <<>>, num_commands - 1)} :
           /\ fds' = c.t
           /\ pipes' = c.pipes
           /\ pc' = IF c.ok THEN "fork" ELSE "done"
           /\ ev' = [ev EXCEPT !.npipes = Len(c.pipes),
                               !.errs = IF c.ok THEN @ ELSE @ \cup {"PipeFailed"},
                               !.heap.frees = IF c.ok THEN @ ELSE PipelineCleanup(commands)]
    /\ idx' = 0
    /\ UNCHANGED <<line, faults, commands, kids>>
    /\ UNCHANGED <<parseVars, envVars, findVars>>

\* pids[i] = fork() makes the child of stage i, with a copy of the table
Fork ==
    /\ pc = "fork" /\ idx < num_commands
    /\ kids' = [kids EXCEPT ![idx] = [NoKid EXCEPT !.st = "forked", !.t = fds]]
    /\ idx' = idx + 1
    /\ ev' = [ev EXCEPT !.forks = @ + 1]
    /\ UNCHANGED <<pc, line, fds, faults, commands, pipes>>
    /\ UNCHANGED <<parseVars, envVars, findVars>>

\* pids[i] = fork() returns -1: perror and return
ForkFails ==
    /\ pc = "fork" /\ idx < num_commands
    /\ faults > 0
    /\ faults' = faults - 1
    /\ pc' = "done"
    /\ ev' = [ev EXCEPT !.errs = @ \cup {"ForkFailed"},
                        !.heap.frees = PipelineCleanup(commands)]
    /\ UNCHANGED <<line, fds, commands, pipes, idx, kids>>
    /\ UNCHANGED <<parseVars, envVars, findVars>>

\* close(pipes[j][0]); close(pipes[j][1]) for every pipe of the call
RECURSIVE CloseAll(_, _)
CloseAll(t, ps) ==
    IF ps = <<>> THEN t ELSE CloseAll(Close(Close(t, Head(ps).r), Head(ps).w), Tail(ps))

\* a faulty variant: the parent keeps its pipe descriptors
ParentKeepsPipes(t, ps) == t

\* the loop at the end of the fork loop, in the parent
ParentCloseFds(t, ps) == CloseAll(t, ps)

\* the parent, after the fork loop: close every pipe descriptor
ParentClose ==
    /\ pc = "fork" /\ idx = num_commands
    /\ fds' = ParentCloseFds(fds, pipes)
    /\ pc' = "wait"
    /\ idx' = 0
    /\ UNCHANGED <<line, faults, commands, pipes, kids, ev>>
    /\ UNCHANGED <<parseVars, envVars, findVars>>

\* waitpid(pids[i], NULL, 0) returns once child i has terminated; after the
\* last one execute_pipeline returns and main frees the line's memory
Wait ==
    /\ pc = "wait" /\ idx < num_commands
    /\ kids[idx].st = "exited"
    /\ kids' = [kids EXCEPT ![idx].st = "reaped"]
    /\ idx' = idx + 1
    /\ ev' = [ev EXCEPT !.waits = @ + 1,
                        !.heap.frees = IF idx + 1 = num_commands
                                       THEN PipelineCleanup(commands) ELSE @]
    /\ pc' = IF idx + 1 = num_commands THEN "done" ELSE "wait"
    /\ UNCHANGED <<line, fds, faults, commands, pipes>>
    /\ UNCHANGED <<parseVars, envVars, findVars>>

\* ------------------------------------------------------------ the children
\* a faulty variant: the descriptors of the pipes stay open after the dup2s
ChildWireLeaky(t, i, n, ps) ==
    LET t1 == IF i > 0 THEN Dup2(t, ps[i].r, STDIN_FILENO) ELSE t
    IN  IF i < n - 1 THEN Dup2(t1, ps[i + 1].w, STDOUT_FILENO) ELSE t1

\* the child of stage i, before it runs anything: the two dup2 calls and the
\* closing of every pipe descriptor
ChildWire(t, i, n, ps) ==
    LET t1 == IF i > 0 THEN Dup2(t, ps[i].r, STDIN_FILENO) ELSE t
        t2 == IF i < n - 1 THEN Dup2(t1, ps[i + 1].w, STDOUT_FILENO) ELSE t1
    IN  CloseAll(t2, ps)

\* the status a pipeline child that ran a builtin terminates with: exit(0)
\* after execute_builtin returns, or the builtin exit's own code
BuiltinChildStatus(b) == IF b.exits THEN b.code ELSE 0

\* a faulty variant: without the exit(0) the child comes back from
\* execute_builtin into the fork loop of execute_pipeline, and from there
\* into main's loop
ChildGoesOn(b) == IF b.exits THEN "exited" ELSE "looping"

\* where the child is after the builtin branch: exit(0) follows the
\* return of execute_builtin (and the builtin exit calls exit itself)
ChildAfterBuiltin(b) == "exited"

\* a faulty variant: the builtin of a stage runs in the shell process
\* itself
ShellRunsStage(en, b) == b.env

\* what the shell process has of a builtin run in the child of a stage:
\* the child works on its own copy of the working directory, the history
\* list and the counters, and the two processes share the files
ShellAfterChild(en, b) == [en EXCEPT !.files = b.env.files]

\* the child of stage i starts: wiring, then the builtin (and exit), or
\* "command not found" (and exit(1)), or execve
ChildStart(i) ==
    /\ i < Len(commands)
    /\ kids[i].st = "forked"
    /\ \E t \in {ChildWire(kids[i].t, i, num_commands, pipes)} :
       \E argv \in {commands[i + 1]} :
       \E prog \in {ProgOf(argv, t)} :
           IF is_builtin(argv[1])
           THEN \E b \in {execute_builtin(argv, NoRedir, t, env)} :
                /\ kids' = [kids EXCEPT ![i] =
                    [st |-> ChildAfterBuiltin(b), t |-> NoFds, at |-> t, prog |-> prog,
                     status |-> BuiltinChildStatus(b),
                     ret |-> IF b.exits THEN VOID ELSE b.ret]]
                /\ env' = ShellAfterChild(env, b)
           ELSE IF find_executable(argv[1]) = NULLP
           THEN /\ kids' = [kids EXCEPT ![i] =
                    [st |-> "exited", t |-> NoFds, at |-> NoFds, prog |-> NoProg, status |-> 1,
                     ret |-> VOID]]
                /\ env' = env
           ELSE /\ kids' = [kids EXCEPT ![i] =
                    [st |-> "running", t |-> t, at |-> t, prog |-> prog, status |-> VOID,
                     ret |-> VOID]]
                /\ env' = env
    /\ UNCHANGED <<pc, line, fds, faults, commands, pipes, idx, ev>>
    /\ UNCHANGED <<parseVars, prev, mark, findVars>>

\* the processes that exist besides the shell
Live(i) == kids[i].st \in {"forked", "running"}

\* a read on the descriptor reaches end-of-input: it is no pipe, or no
\* process holds the write end of that pipe any more
AtEof(target) ==
    \/ target.k # "pipe_r"
    \/ \A p \in 0..MaxFd : target = PipeR(p) =>
           /\ ~HoldsW(fds, p) \/ pc \in {"exited", "crashed"}
           /\ \A j \in Stages : Live(j) => ~HoldsW(kids[j].t, p)

\* the programs that read their standard input to its end before they exit
ReadsStdin(argv) == argv[1] = tCAT

\* the program of stage i terminates, with status st: one that reads its
\* input does so at end-of-input, the others on their own
ChildExit(i, st) ==
    /\ kids[i].st = "running"
    /\ ReadsStdin(kids[i].prog.argv) => AtEof(kids[i].prog.in)
    /\ kids' = [kids EXCEPT ![i].st = "exited", ![i].t = NoFds, ![i].status = st]
    /\ UNCHANGED <<pc, line, fds, faults, commands, pipes, idx, ev>>
    /\ UNCHANGED <<parseVars, envVars, findVars>>

\* ------------------------------------------------------------ the shell
\* find_executable not called yet
TODO == <<"TODO">>
NoSearch == [set |-> TRUE, dirs |-> <<>>, command |-> <<>>]
FindIdle == f_in = NoSearch /\ f_res = TODO

ShellInit ==
    /\ pc = "prompt"
    /\ line = <<>>
    /\ fds = InitFds
    /\ faults = MaxFaults
    /\ commands = <<>>
    /\ pipes = <<>>
    /\ idx = 0
    /\ kids = NoKids
    /\ ev = NoEv
    /\ env = Env0
    /\ prev = Env0
    /\ mark = 0
    /\ FindIdle

\* no result of parse_command yet
NoRes == [argc |-> -2, args |-> <<>>, nullAt |-> -1, err |-> "none", ovf |-> FALSE,
          freed |-> 0]

Init ==
    /\ ShellInit
    /\ p_line = <<>> /\ p_words = << <<>> >> /\ p_mode = "out"
    /\ p_quoted = FALSE /\ p_res = NoRes

Next ==
    \/ \E l \in SingleLines : RunSingle(l)
    \/ RunEmpty
    \/ LoopAgain
    \/ ReadEOF
    \/ \E l \in PipeLines : StartPipeline(l)
    \/ CreatePipes
    \/ Fork
    \/ ForkFails
    \/ ParentClose
    \/ Wait
    \/ \E i \in Stages : ChildStart(i)
    \/ \E i \in Stages, st \in {0, 1} : ChildExit(i, st)

Spec == Init /\ [][Next]_vars

\* the scheduler runs every process that can run: the children are
\* scheduled, and the shell, once it has forked every stage, goes on to
\* close its pipe descriptors and to wait
Fairness ==
    /\ WF_vars(ParentClose)
    /\ WF_vars(Wait)
    /\ \A i \in Stages : WF_vars(ChildStart(i))
    /\ \A i \in Stages : WF_vars(\E st \in {0, 1} : ChildExit(i, st))

LiveSpec == Init /\ [][Next]_vars /\ Fairness

\* ------------------------------------------------------------ path search
\* a directory whose name is so long that, first in PATH, it leaves no
\* room in path_copy for the one after it
LongDir == <<"/">> \o Repeat(<<"z">>, MAX_CMD_LEN - 3)

\* the directory lists of PATH: up to MaxPath of /a, /b and /c in any
\* order, and the long directory followed by /b
PathLists ==
    UNION { [1..n -> {dA, dB, dC}] : n \in 0..MaxPath } \cup { <<LongDir, dB>> }

PathInit ==
    /\ pc = "prompt" /\ line = <<>> /\ fds = InitFds /\ faults = MaxFaults
    /\ commands = <<>> /\ pipes = <<>> /\ idx = 0 /\ kids = NoKids /\ ev = NoEv
    /\ env = Env0 /\ prev = Env0 /\ mark = 0
    /\ p_line = <<>> /\ p_words = << <<>> >> /\ p_mode = "out"
    /\ p_quoted = FALSE /\ p_res = NoRes
    /\ f_in \in ([set : {TRUE}, dirs : PathLists, command : {tCAT, tLS, tNOSUCH}]
                    \cup {[set |-> FALSE, dirs |-> <<>>, command |-> tLS]})
    /\ f_res = TODO

\* find_executable(command) is called
Find ==
    /\ f_res = TODO
    /\ f_res' = FindIn(IF f_in.set THEN JoinColon(f_in.dirs) ELSE NULLP, f_in.command)
    /\ UNCHANGED f_in
    /\ UNCHANGED <<shellVars, parseVars, envVars>>

PathNext == Find

PathSpec == PathInit /\ [][PathNext]_vars

\* ------------------------------------------------------------ sessions
\* one whole turn of while (1) for a line without '|', the environment
\* followed: read_command_readline (save_history_to_histfile, add_history),
\* then main's body, ending in readline again.  line, ev and kids keep the
\* account of the line just handled
Turn(l) ==
    /\ pc = "prompt"
    /\ history_length(env) < MaxHist
    /\ l # <<>> /\ CountBars(l) = 0
    /\ \E ws \in WaitStatuses, survive \in BOOLEAN :
         \E o \in {HandleSingle(l, fds, ws, FALSE, survive,
                                add_history(save_history_to_histfile(env), l))} :
             /\ pc' = IF o.pc = "done" THEN "prompt" ELSE o.pc
             /\ fds' = o.fds
             /\ ev' = o.ev
             /\ kids' = [NoKids EXCEPT ![0] = o.kid]
             /\ env' = o.env
             /\ mark' = IF /\ o.ev.call = "builtin" /\ o.ev.ret = 0
                           /\ Len(o.ev.args) >= 3 /\ o.ev.args[1] = tHISTORY
                           /\ o.ev.args[2] \in {tMINUS_R, tMINUS_W, tMINUS_A}
                        THEN history_length(o.env) ELSE mark
    /\ prev' = env
    /\ line' = l
    /\ commands' = <<>> /\ pipes' = <<>> /\ idx' = 0
    /\ UNCHANGED faults
    /\ UNCHANGED <<parseVars, findVars>>

FileNext == \E l \in FileLines : Turn(l)

FileSpec == Init /\ [][FileNext]_vars

\* the shell started without HISTFILE, with HISTFILE naming a file that is
\* not there, and with HISTFILE naming a file of one line; q is a file
\* with one line, missing, or empty
HistStarts ==
    { [Env0 EXCEPT !.files = Store(NoFiles, tQ, tO \o <<NL>>)],
      [Env0 EXCEPT !.HISTFILE = tH],
      [Env0 EXCEPT !.HISTFILE = tH,
                   !.files = Store(Store(NoFiles, tH, tO \o <<NL>>), tQ, <<>>)] }

\* main up to the first readline: load_history_from_histfile
HistInit ==
    /\ pc = "prompt" /\ line = <<>> /\ fds = InitFds /\ faults = MaxFaults
    /\ commands = <<>> /\ pipes = <<>> /\ idx = 0 /\ kids = NoKids /\ ev = NoEv
    /\ \E e \in HistStarts :
          /\ env = load_history_from_histfile(e)
          /\ prev = env
          /\ mark = history_length(env)
    /\ p_line = <<>> /\ p_words = << <<>> >> /\ p_mode = "out"
    /\ p_quoted = FALSE /\ p_res = NoRes
    /\ FindIdle

HistNext == \E l \in HistLines : Turn(l)

HistSpec == HistInit /\ [][HistNext]_vars

\* the lines of the sessions about builtins as stages of a pipeline: the
\* builtin is the first stage and ls the second
StageBuiltins ==
    { tTYPE, JoinSp(<<tCD, tD>>), JoinSp(<<tCD, tNODIR>>), JoinSp(<<tEXIT, <<"3">> >>) }
        \cup { JoinSp(<<tHISTORY, f, tQ>>) : f \in {tMINUS_R, tMINUS_W, tMINUS_A} }
StageLines == { JoinBar(<<b, tLS>>) : b \in StageBuiltins }

\* one turn of while (1) for a line with '|', the environment followed:
\* read_command_readline (save_history_to_histfile, add_history), then
\* main's body up to the call of execute_pipeline
PipelineTurn(l) ==
    /\ history_length(env) < MaxHist
    /\ SplitAndParse(l)
    /\ env' = add_history(save_history_to_histfile(env), l)
    /\ prev' = env
    /\ UNCHANGED mark
    /\ UNCHANGED <<parseVars, findVars>>

StageNext ==
    \/ \E l \in StageLines : PipelineTurn(l)
    \/ CreatePipes
    \/ Fork
    \/ ParentClose
    \/ Wait
    \/ \E i \in Stages : ChildStart(i)
    \/ \E i \in Stages, st \in {0, 1} : ChildExit(i, st)
    \/ LoopAgain

StageSpec == HistInit /\ [][StageNext]_vars

\* the shell started with HOME set and with HOME unset
DirInit ==
    /\ pc = "prompt" /\ line = <<>> /\ fds = InitFds /\ faults = MaxFaults
    /\ commands = <<>> /\ pipes = <<>> /\ idx = 0 /\ kids = NoKids /\ ev = NoEv
    /\ env \in { Env0, [Env0 EXCEPT !.HOME = NULLP] }
    /\ prev = env
    /\ mark = 0
    /\ p_line = <<>> /\ p_words = << <<>> >> /\ p_mode = "out"
    /\ p_quoted = FALSE /\ p_res = NoRes
    /\ FindIdle

DirNext == \E l \in DirLines : Turn(l)

DirSpec == DirInit /\ [][DirNext]_vars

\* ------------------------------------------------------------ typing a line
\* The tokenizer specification: a line is typed piece by piece, every piece
\* with what it means for the arguments (p_words: the arguments spelled so
\* far, the last of them still being typed), and parse_command is then
\* applied to the line.

\* the examples of the description, with the arguments they spell
Example1 ==
    tECHO \o <<SP, SQ, "a", SP, "b", SQ, SP, DQ, "c", BS, DQ, "d", DQ>>
Example1Words == <<tECHO, <<"a", SP, "b">>, <<"c", DQ, "d">> >>
Example2 == <<"a", DQ, "b", DQ, "c">>
Example2Words == << <<"a", "b", "c">> >>

TokInit ==
    /\ ShellInit
    /\ \/ p_line = <<>> /\ p_words = << <<>> >> /\ p_quoted = FALSE
       \/ p_line = Example1 /\ p_words = Example1Words /\ p_quoted = TRUE
       \/ p_line = Example2 /\ p_words = Example2Words /\ p_quoted = TRUE
    /\ p_mode = "out"
    /\ p_res = NoRes

\* the characters typed are raw, and mean the characters add for the
\* argument being typed
Type(raw, add) ==
    /\ p_res = NoRes
    /\ Len(p_line) + Len(raw) <= MaxTyped
    /\ p_line' = p_line \o raw
    /\ p_words' = [p_words EXCEPT ![Len(p_words)] = @ \o add]
    /\ UNCHANGED p_res
    /\ UNCHANGED <<shellVars, envVars, findVars>>

\* outside quotes: an ordinary character
TypePlain(c) == p_mode = "out" /\ Type(<<c>>, <<c>>) /\ UNCHANGED <<p_mode, p_quoted>>

\* outside quotes: a backslash and the character it escapes
TypeEscape(x) == p_mode = "out" /\ Type(<<BS, x>>, <<x>>) /\ UNCHANGED <<p_mode, p_quoted>>

\* outside quotes: a run of blanks ends the argument
TypeBlank(w) ==
    /\ p_mode = "out"
    /\ p_res = NoRes
    /\ Len(p_line) + Len(w) <= MaxTyped
    /\ p_line' = p_line \o w
    /\ p_words' = IF p_words[Len(p_words)] = <<>> THEN p_words ELSE Append(p_words, <<>>)
    /\ UNCHANGED <<p_mode, p_quoted, p_res>>
    /\ UNCHANGED <<shellVars, envVars, findVars>>

\* a quote character opens or closes a quoted run
TypeQuote(q) ==
    /\ \/ p_mode = "out" /\ p_mode' = (IF q = SQ THEN "sq" ELSE "dq")
       \/ p_mode = "sq" /\ q = SQ /\ p_mode' = "out"
       \/ p_mode = "dq" /\ q = DQ /\ p_mode' = "out"
    /\ Type(<<q>>, <<>>)
    /\ p_quoted' = TRUE

\* inside single quotes: any character but the quote, meaning itself
TypeInSingle(c) == p_mode = "sq" /\ Type(<<c>>, <<c>>) /\ UNCHANGED <<p_mode, p_quoted>>

\* inside double quotes: a character other than the quote and the backslash
TypeInDouble(c) == p_mode = "dq" /\ Type(<<c>>, <<c>>) /\ UNCHANGED <<p_mode, p_quoted>>

\* inside double quotes: a backslash before one of " \ $ and the backquote
TypeDoubleEscape(x) == p_mode = "dq" /\ Type(<<BS, x>>, <<x>>) /\ UNCHANGED <<p_mode, p_quoted>>

\* inside double quotes: a backslash before any other character stays
TypeDoubleKept(x) == p_mode = "dq" /\ Type(<<BS, x>>, <<BS, x>>) /\ UNCHANGED <<p_mode, p_quoted>>

\* what a call of parse_command can leave: its result, and, when a write
\* went past the end of current_arg (the stack of the call is overwritten),
\* the process killed as well
Smashed ==
    [argc |-> -3, args |-> <<>>, nullAt |-> -1, err |-> "killed", ovf |-> TRUE, freed |-> 0]

ParseOutcomes(input) ==
    LET r == parse_command(input) IN IF r.ovf THEN {r, Smashed} ELSE {r}

\* parse_command is called on the line
Tokenize ==
    /\ p_res = NoRes
    /\ p_res' \in ParseOutcomes(p_line)
    /\ UNCHANGED <<p_line, p_words, p_mode, p_quoted>>
    /\ UNCHANGED <<shellVars, envVars, findVars>>

TokNext ==
    \/ \E c \in {"a", "b"} : TypePlain(c)
    \/ \E x \in {SP, SQ, DQ, BS, "a"} : TypeEscape(x)
    \/ \E w \in {<<SP>>, <<TAB>>, <<SP, TAB>>} : TypeBlank(w)
    \/ \E q \in {SQ, DQ} : TypeQuote(q)
    \/ \E c \in {"a", SP, BS, DQ, DOLLAR} : TypeInSingle(c)
    \/ \E c \in {"a", SP, SQ, DOLLAR} : TypeInDouble(c)
    \/ \E x \in {DQ, BS, DOLLAR, BTICK} : TypeDoubleEscape(x)
    \/ \E x \in {"a", SP, SQ} : TypeDoubleKept(x)
    \/ Tokenize

TokSpec == TokInit /\ [][TokNext]_vars

\* Lines as long as readline returns them: one argument of about
\* MAX_CMD_LEN characters, bare or in quotes, alone or next to another
\* argument, and lines of about MAX_ARGS arguments
LongTokens == { Repeat(<<c>>, n) : c \in {"a", "b"}, n \in (MAX_CMD_LEN - 2)..(MAX_CMD_LEN + 1) }
BufBefore == { <<>>, <<"b", SP>>, <<SQ>>, <<DQ>> }
BufAfter == { <<>>, <<SP, "b">>, <<SQ>>, <<DQ>> }
ManyArgs == { Repeat(<<"a", SP>>, n) \o e : n \in (MAX_ARGS - 2)..(MAX_ARGS + 1),
                                          e \in { <<>>, <<"b">>, <<SQ, "b">> } }
BufLines == { b \o w \o a : b \in BufBefore, w \in LongTokens, a \in BufAfter } \cup ManyArgs

BufInit ==
    /\ ShellInit
    /\ p_line \in BufLines
    /\ p_words = << <<>> >> /\ p_quoted = FALSE /\ p_mode = "out"
    /\ p_res = NoRes

BufSpec == BufInit /\ [][Tokenize]_vars

\* the arguments the typed line spells: the words that are not empty
Spelled == SelectSeq(p_words, LAMBDA w : w # <<>>)

\* ------------------------------------------------------------ properties
\* the quote state of a scan of a line, whatever the number of arguments:
\* outside, inside single or double quotes, and after a backslash outside
\* ("oe") or inside double quotes ("de")
QStates == {"out", "sq", "dq", "oe", "de"}
QStep(q, c) ==
    IF q = "oe" THEN "out"
    ELSE IF q = "de" THEN "dq"
    ELSE IF q = "sq" THEN (IF c = SQ THEN "out" ELSE "sq")
    ELSE IF q = "dq" THEN (IF c = DQ THEN "out" ELSE IF c = BS THEN "de" ELSE "dq")
    ELSE IF c = SQ THEN "sq" ELSE IF c = DQ THEN "dq" ELSE IF c = BS THEN "oe" ELSE "out"

\* the quote state after s[a..b], as a function of the state before it
RECURSIVE QRange(_, _, _)
QRange(s, a, b) ==
    IF a > b THEN [q \in QStates |-> q]
    ELSE IF a = b THEN [q \in QStates |-> QStep(q, s[a])]
    ELSE LET f == QRange(s, a, (a + b) \div 2)
             g == QRange(s, ((a + b) \div 2) + 1, b)
         IN  [q \in QStates |-> g[f[q]]]

\* the text ends while still inside a single or double quote
EndsInQuote(s) == QRange(s, 1, Len(s))["out"] \in {"sq", "dq", "de"}

\* the redirection variables put the stream fd on a file, and on which
Redirected(r, fd) ==
    \/ fd = STDOUT_FILENO /\ (r.redirect_file # NULLP \/ r.append_file # NULLP)
    \/ fd = STDERR_FILENO /\ (r.redirect_stderr_file # NULLP \/ r.append_stderr_file # NULLP)
RedirectedTo(r, fd) ==
    IF fd = STDOUT_FILENO
    THEN IF r.redirect_file # NULLP THEN FileT(r.redirect_file, FALSE)
         ELSE FileT(r.append_file, TRUE)
    ELSE IF r.redirect_stderr_file # NULLP THEN FileT(r.redirect_stderr_file, FALSE)
         ELSE FileT(r.append_stderr_file, TRUE)

\* C1: a single command line that ends in a redirection operator with no
\* file name after it is reported, runs no builtin and forks no process for
\* that line, and the shell goes on to the next line: it neither exits nor
\* crashes.
C1_MissingTargetKeepsShell ==
    "MissingRedirectTarget" \in ev.errs =>
        /\ ev.builtins = 0
        /\ ev.forks = 0
        /\ pc = "done"

\* C2: whenever execute_pipeline has returned, also after a fork that
\* failed, every child forked for the pipeline has been waited for.
C2_ReturnedPipelineIsReaped ==
    (pc = "done" /\ ev.call = "pipeline" /\ ev.ub = {}) =>
        \A i \in Stages : kids[i].st \in {"none", "reaped"}

\* every stage of the pipeline has its child
AllForked == pc = "fork" /\ idx = num_commands /\ num_commands >= 2

\* execute_pipeline has returned and every stage's child was collected
PipelineReturned ==
    /\ pc = "done" /\ ev.call = "pipeline"
    /\ num_commands >= 2 /\ ev.waits = num_commands
    /\ \A i \in Stages : i < num_commands => kids[i].st = "reaped"

\* C3: once all N stages of a pipeline are forked, under fair scheduling
\* every child terminates (a reader at end-of-input, once the writers of its
\* pipe are gone) and execute_pipeline returns, having waited for all N: no
\* reader blocks forever on a write end the parent or a sibling still holds.
C3_PipelineTerminates == AllForked ~> PipelineReturned

\* a returned pipeline whose first stage was not found and whose second read
\* its pipe to the end
C3_Witness ==
    /\ PipelineReturned
    /\ kids[0].prog = NoProg /\ kids[0].status = 1
    /\ ReadsStdin(commands[2]) /\ kids[1].prog.in.k = "pipe_r"

\* C4: a pipeline stage whose segment holds a redirection operator and a
\* file name runs its program without those two tokens among the arguments
\* and with that stream on the named file, not on the pipe or the terminal.
C4_StageRedirectionApplied ==
    \A i \in Stages :
        (i < Len(commands) /\ kids[i].prog # NoProg /\ ev.ub = {}
            /\ ScanRedirect(commands[i + 1]).res = "ok") =>
            LET sc == ScanRedirect(commands[i + 1])
            IN  /\ kids[i].prog.argv = sc.argv
                /\ Redirected(sc.redir, STDOUT_FILENO) =>
                       kids[i].prog.out = RedirectedTo(sc.redir, STDOUT_FILENO)
                /\ Redirected(sc.redir, STDERR_FILENO) =>
                       kids[i].prog.err = RedirectedTo(sc.redir, STDERR_FILENO)

\* C5: the status the interactive loop gets for a pipeline of N stages is
\* the exit status of stage N-1.
C5_PipelineStatusIsLastStage ==
    (pc = "done" /\ ev.call = "pipeline" /\ ev.ub = {}
        /\ num_commands >= 2 /\ ev.waits = num_commands) =>
        ev.ret = kids[num_commands - 1].status

\* the line, or one of the segments of a pipeline line, ends inside a quote
QuoteLeftOpen(l) ==
    IF CountBars(l) = 0 THEN EndsInQuote(l)
    ELSE \E k \in 1..Len(SplitEvery(l, 1)) : EndsInQuote(SplitEvery(l, 1)[k])

\* C6: when a single command line, or a segment of a pipeline, ends inside
\* a quote, parse_command returns the error with no arguments and the shell
\* runs nothing for the line (no builtin, no pipe, no fork) and goes on to
\* the next line.
C6_UnclosedQuoteRunsNothing ==
    (pc # "prompt" /\ line # <<>> /\ QuoteLeftOpen(line)) =>
        /\ pc = "done"
        /\ ev.call = "none" /\ ev.args = <<>>
        /\ ev.builtins = 0 /\ ev.npipes = 0 /\ ev.forks = 0
        /\ CountBars(line) = 0 => ev.rc = <<-1>>

\* C7: a line with k >= 1 '|' bytes (and no more stages than
\* MAX_PIPELINE_CMDS) is split into exactly k+1 segments, the texts between
\* consecutive '|' bytes, and when one of them tokenizes to no argument the
\* pipeline is reported as a parse failure before any pipe or process is
\* made.
C7_SplitterYieldsEverySegment ==
    (pc # "prompt" /\ CountBars(line) >= 1 /\ CountBars(line) + 1 <= MAX_PIPELINE_CMDS) =>
        /\ ev.nseg = CountBars(line) + 1
        /\ (\E k \in 1..Len(SplitEvery(line, 1)) : Parsed(SplitEvery(line, 1)[k]).argc = 0) =>
               /\ pc = "done"
               /\ "PipelineParse" \in ev.errs
               /\ ev.npipes = 0 /\ ev.forks = 0

\* C8: a builtin run as the only command of a line with a stdout or stderr
\* redirection writes that stream to the file during the call, and when
\* execute_builtin has returned (whatever it returned) the shell's stdout and
\* stderr are what they were before the call.
C8_BuiltinRedirectionRestored ==
    (pc = "done" /\ ev.call = "builtin") =>
        /\ fds[STDOUT_FILENO] = ev.before[STDOUT_FILENO]
        /\ fds[STDERR_FILENO] = ev.before[STDERR_FILENO]
        /\ ev.builtins = 1 =>
               \A k \in 1..Len(ev.out) :
                   ev.out[k].to = IF Redirected(ev.redir, ev.out[k].fd)
                                  THEN RedirectedTo(ev.redir, ev.out[k].fd)
                                  ELSE ev.before[ev.out[k].fd]

\* echo a > f has run: its line went to f, and stdout is the terminal again
C8_Witness ==
    /\ pc = "done" /\ ev.call = "builtin" /\ ev.builtins = 1
    /\ ev.args = <<tECHO, tA>> /\ ev.redir.redirect_file = tF
    /\ Len(ev.out) = 1 /\ ev.out[1].to = FileT(tF, FALSE)
    /\ fds[STDOUT_FILENO] = TTY

\* C9: for a line with balanced quotes parse_command returns the arguments
\* the line spells: the characters inside single quotes as they are, inside
\* double quotes a backslash before one of " \ $ and the backquote replaced by
\* that character and a backslash before another character kept, the quote
\* characters removed, adjacent quoted and unquoted runs in one argument.
C9_QuotedRunsTokenized ==
    (p_res # NoRes /\ p_quoted /\ p_mode = "out") =>
        /\ p_res.err = "none"
        /\ p_res.args = Spelled
        /\ p_res.argc = Len(Spelled)

\* the first example of the description, tokenized
C9_Witness ==
    /\ p_line = Example1
    /\ p_res # NoRes
    /\ p_res.args = <<tECHO, <<"a", SP, "b">>, <<"c", DQ, "d">> >>

\* C10: outside quotes a run of blanks is one separator and makes no empty
\* argument, a backslash copies the character after it and both are
\* consumed (an escaped blank, quote or backslash stays in the argument),
\* and the arguments come in input order with argv[argc] = NULL.
C10_UnquotedTokenized ==
    (p_res # NoRes /\ ~p_quoted) =>
        /\ p_res.args = Spelled
        /\ p_res.argc = Len(Spelled)
        /\ p_res.nullAt = p_res.argc
        /\ \A k \in 1..Len(p_res.args) : p_res.args[k] # <<>>

\* an escaped blank, a run of two blanks and a character, tokenized
C10_Witness ==
    /\ p_line = <<BS, SP, SP, TAB, "b">>
    /\ p_res # NoRes
    /\ p_res.args = << <<SP>>, <<"b">> >>
    /\ p_res.nullAt = 2

\* ------------------------------------------------------------ C11
\* the stream and the mode each operator stands for
OpStream(op) == IF op \in {op2GT, op2GTGT} THEN STDERR_FILENO ELSE STDOUT_FILENO
OpAppends(op) == op \in {opGTGT, op1GTGT, op2GTGT}

\* the operator token of a line that has one
LineOp(l) == CHOOSE op \in RedirOps : \E j \in 1..Len(Parsed(l).args) : Parsed(l).args[j] = op

\* the texts of the writes on descriptor fd, one after the other
RECURSIVE TextOn(_, _)
TextOn(out, fd) ==
    IF out = <<>> THEN <<>>
    ELSE (IF Head(out).fd = fd THEN Head(out).text ELSE <<>>) \o TextOn(Tail(out), fd)

\* what the command of the line handled last wrote on descriptor fd: the
\* builtin in the shell process, the program in the child
Written(fd) ==
    IF ev.call = "builtin" THEN TextOn(ev.out, fd)
    ELSE TextOn(ProgramWrites(ev.args, InitFds), fd)

ABC == <<"a", SP, "b", SP, "c", NL>>

\* C11: after a command with a redirection operator and a target, builtin
\* or program, the target exists and holds what the command wrote on the
\* operator's stream (stdout for >, 1>, >>, 1>>; stderr for 2>, 2>>), alone
\* after a truncating operator and after the file's previous content after
\* an appending one; so echo a b c > f followed by echo a b c >> f leaves
\* the line a b c in f exactly twice
C11_OperatorSelectsStreamAndMode ==
    (pc = "prompt" /\ line \in FileLines) =>
        /\ Exists(env.files, tF)
        /\ env.files[tF] =
               (IF OpAppends(LineOp(line)) /\ Exists(prev.files, tF)
                THEN prev.files[tF] ELSE <<>>) \o Written(OpStream(LineOp(line)))
        /\ (/\ line = JoinSp(<<tECHO, tA, <<"b">>, <<"c">>, opGTGT, tF>>)
            /\ Exists(prev.files, tF) /\ prev.files[tF] = ABC)
               => env.files[tF] = ABC \o ABC

\* echo a b c > f, then echo a b c >> f
C11_Witness ==
    /\ pc = "prompt"
    /\ line = JoinSp(<<tECHO, tA, <<"b">>, <<"c">>, opGTGT, tF>>)
    /\ Exists(prev.files, tF) /\ prev.files[tF] = ABC
    /\ prev.history[Len(prev.history)] = JoinSp(<<tECHO, tA, <<"b">>, <<"c">>, opGT, tF>>)
    /\ env.files[tF] = ABC \o ABC

\* ------------------------------------------------------------ C12
\* the tokens before the first operator token
RECURSIVE BeforeOp(_)
BeforeOp(tokens) ==
    IF tokens = <<>> \/ Head(tokens) \in RedirOps THEN <<>>
    ELSE <<Head(tokens)>> \o BeforeOp(Tail(tokens))

\* C12: the argv handed to a builtin or to a program is exactly the tokens
\* of the line before its first redirection operator, in order, with NULL
\* right after them: the operator, the file name and whatever follows are
\* not in it; and no redirection target is the empty string
C12_ArgvIsTokensBeforeOperator ==
    (pc \in {"done", "exited"} /\ ev.call \in {"builtin", "external"}) =>
        /\ ev.args = BeforeOp(Parsed(line).args)
        /\ ev.array[Len(ev.args) + 1] = NULLP
        /\ \A j \in 1..Len(ev.args) : ev.array[j] = ev.args[j]
        /\ \A v \in DOMAIN NoRedir : ev.redir[v] # <<>>

\* echo a > f b has run echo with the one argument a
C12_Witness ==
    /\ pc = "done"
    /\ line = JoinSp(<<tECHO, tA, opGT, tF, <<"b">> >>)
    /\ ev.call = "builtin"
    /\ ev.args = <<tECHO, tA>>
    /\ ev.redir.redirect_file = tF

\* ------------------------------------------------------------ C13
\* the operator tokens for descriptor fd that have a token after them
OpsOn(tokens, fd) ==
    { j \in 1..(Len(tokens) - 1) : tokens[j] \in RedirOps /\ OpStream(tokens[j]) = fd }

\* the file the last operator for fd names, with that operator's mode
LastTarget(tokens, fd) ==
    LET j == CHOOSE k \in OpsOn(tokens, fd) : \A m \in OpsOn(tokens, fd) : m <= k
    IN  FileT(tokens[j + 1], OpAppends(tokens[j]))

\* C13: when a line carries two operators for the same stream (cmd > f > k,
\* cmd 2> f 2>> k), the later one wins: the command runs with that stream
\* on the target of the later operator, opened in the later operator's mode
C13_LaterOperatorWins ==
    \A fd \in {STDOUT_FILENO, STDERR_FILENO} :
        (/\ pc = "done" /\ ev.call \in {"builtin", "external"}
         /\ Cardinality(OpsOn(Parsed(line).args, fd)) >= 2) =>
            /\ \A n \in 1..Len(ev.out) :
                   ev.out[n].fd = fd => ev.out[n].to = LastTarget(Parsed(line).args, fd)
            /\ kids[0].prog # NoProg =>
                   (IF fd = STDOUT_FILENO THEN kids[0].prog.out ELSE kids[0].prog.err)
                       = LastTarget(Parsed(line).args, fd)

\* ------------------------------------------------------------ C14
\* C14: a history -a <file> that succeeds puts at the end of the file
\* exactly the entries added to the list since the last load (at startup,
\* by history -r) or successful -w or -a: no entry that was loaded or
\* written out before is appended again
C14_AppendsOnlyNewEntries ==
    [][(/\ pc = "prompt" /\ env' # env
        /\ line' = JoinSp(<<tHISTORY, tMINUS_A, tQ>>)
        /\ ev'.ret = 0 /\ Exists(env.files, tQ)) =>
            env'.files[tQ] =
                env.files[tQ] \o Unlines(SubSeq(env'.history, mark + 1, Len(env'.history)))]_vars

\* ------------------------------------------------------------ C15
\* the number a string of digits spells
RECURSIVE NumberOf(_)
NumberOf(ds) ==
    IF ds = <<>> THEN 0
    ELSE NumberOf(SubSeq(ds, 1, Len(ds) - 1)) * 10 + DigitVal(ds[Len(ds)])

AllDigits(ds) == ds # <<>> /\ \A j \in 1..Len(ds) : IsDigit(ds[j])
IsInteger(tok) == AllDigits(tok) \/ (tok # <<>> /\ tok[1] \in {"-", "+"} /\ AllDigits(Tail(tok)))
IntegerOf(tok) ==
    IF tok[1] = "-" THEN 0 - NumberOf(Tail(tok))
    ELSE IF tok[1] = "+" THEN NumberOf(Tail(tok))
    ELSE NumberOf(tok)
NonNumeric(tok) == tok[1] \notin {"-", "+", SP, TAB} /\ ~IsDigit(tok[1])

ExitLines == { l \in HistLines : Parsed(l).args[1] = tEXIT }

\* C15: after exit [code] as the only command of a line the shell process
\* has ended, with status code mod 256 for an integer argument and 0 for
\* no argument or one that is no number, and it has saved its history
\* first: with HISTFILE set, the file ends with the line just entered
C15_ExitSavesThenExits ==
    (line \in ExitLines) =>
        /\ pc = "exited"
        /\ LET args == Parsed(line).args
           IN  /\ Len(args) = 1 => ev.code = 0
               /\ (Len(args) >= 2 /\ IsInteger(args[2])) =>
                      ev.code \in 0..255 /\ (IntegerOf(args[2]) - ev.code) % 256 = 0
               /\ (Len(args) >= 2 /\ NonNumeric(args[2])) => ev.code = 0
        /\ env.HISTFILE # NULLP =>
               /\ Exists(env.files, env.HISTFILE)
               /\ Lines(env.files[env.HISTFILE])[Len(Lines(env.files[env.HISTFILE]))] = line

\* exit 259 has ended the shell with status 3, HISTFILE written
C15_Witness ==
    /\ pc = "exited"
    /\ line = JoinSp(<<tEXIT, <<"2", "5", "9">> >>)
    /\ ev.code = 3
    /\ env.HISTFILE = tH
    /\ Len(env.history) >= 2

\* ------------------------------------------------------------ C16
\* the line handled last is a cd that cannot succeed: the directory is not
\* there, or there is no argument (or ~) and HOME is unset
CdCannotSucceed ==
    /\ line \in DirLines /\ Parsed(line).args[1] = tCD
    /\ IF Len(Parsed(line).args) = 1 \/ Parsed(line).args[2] = tTILDE
       THEN prev.HOME = NULLP
       ELSE Parsed(line).args[2] \notin Dirs

\* C16: a cd to a directory that does not exist, and a cd with no argument
\* or ~ while HOME is unset, returns 1 and leaves the working directory as
\* it was, the shell going on to the next line (where pwd prints the
\* previous directory)
C16_FailedCdKeepsDirectory ==
    CdCannotSucceed =>
        /\ pc = "prompt"
        /\ ev.ret = 1
        /\ env.cwd = prev.cwd

\* ------------------------------------------------------------ C18
\* the places in the directory list whose directory holds the command as
\* an executable file
Hits == { k \in 1..Len(f_in.dirs) : (f_in.dirs[k] \o <<"/">> \o f_in.command) \in FsExecutable }

\* C18: find_executable returns the path built from the first directory of
\* PATH, left to right, in which <dir>/<name> is there and executable:
\* entries without execute permission are passed over, a later match is
\* never returned in place of an earlier one, and not-found is returned
\* only when no directory of PATH has an executable match
C18_FirstExecutableMatch ==
    f_res # TODO =>
        IF Hits = {} THEN f_res = NULLP
        ELSE f_res = f_in.dirs[CHOOSE k \in Hits : \A m \in Hits : k <= m]
                        \o <<"/">> \o f_in.command

\* ------------------------------------------------------------ C17
\* the command is an executable file of a directory of the shell's PATH
OnPath(name) == \E d \in {dA, dB} : (d \o <<"/">> \o name) \in FsExecutable

\* C17: a single external command found on PATH gets exactly one child,
\* which applies the redirection and starts the program; the shell waits
\* for it before it reads the next line, and execute_external returns the
\* child's exit status when it exited and 1 when it was killed.  A command
\* that is not on PATH gets no child, and execute_external returns 1
C17_ExternalForkedWaitedStatus ==
    (pc = "done" /\ ev.call = "external" /\ "ForkFailed" \notin ev.errs) =>
        IF OnPath(ev.args[1])
        THEN /\ ev.forks = 1 /\ ev.waits = 1
             /\ kids[0].st = "reaped"
             /\ \A i \in Stages \ {0} : kids[i] = NoKid
             /\ "OpenFailed" \notin ev.errs =>
                    /\ kids[0].prog.argv = ev.args
                    /\ \A fd \in {STDOUT_FILENO, STDERR_FILENO} :
                           (IF fd = STDOUT_FILENO THEN kids[0].prog.out ELSE kids[0].prog.err)
                               = IF Redirected(ev.redir, fd) THEN RedirectedTo(ev.redir, fd)
                                 ELSE ev.before[fd]
             /\ ev.ret = IF kids[0].status >= 0 THEN kids[0].status ELSE 1
        ELSE ev.forks = 0 /\ ev.waits = 0 /\ ev.ret = 1 /\ kids[0] = NoKid

\* cat >> f has run, was killed by a signal, and execute_external returned 1
C17_Witness ==
    /\ pc = "done" /\ ev.call = "external"
    /\ ev.args = <<tCAT>> /\ ev.redir.append_file = tF
    /\ ev.forks = 1 /\ ev.waits = 1
    /\ kids[0].status = 0 - SIGKILL
    /\ kids[0].prog.out = FileT(tF, TRUE)
    /\ ev.ret = 1

OwnPipeFds ==
    { fd \in Fds : /\ fds[fd].k \in {"pipe_r", "pipe_w"}
                   /\ \A n \in Fds : ev.before[n] # fds[fd] }

\* C20: whenever execute_pipeline has returned (after a normal run, after a
\* pipe() that failed, after a fork() that failed) the shell holds no open
\* descriptor of a pipe made by that call, and in a normal run it holds
\* none from the first wait on
C20_ParentHoldsNoPipeOnReturn ==
    (ev.call = "pipeline" /\ ev.ub = {} /\ pc \in {"wait", "done"}) => OwnPipeFds = {}

\* ------------------------------------------------------------ C21
\* the free() calls made on a block of the current line
FreeCount(b) == Cardinality({ k \in 1..Len(ev.heap.frees) : ev.heap.frees[k] = b })

\* C21: when the shell is back at the end of the loop body after handling a
\* line (pipeline finished or failed to parse, single command finished with
\* or without a redirection, parse error), every heap block allocated for
\* the line has been freed exactly once: none is leaked, none is freed twice.
C21_LineHeapFreedOnce ==
    pc = "done" => \A b \in ev.heap.allocs : FreeCount(b) = 1

\* the same, for the lines the leaks and the double free do not arise on:
\* pipelines whose parse loop went through or stopped at the first segment,
\* single commands with no operator or with an operator and its target last
C21_HeapFreedOnceElsewhere ==
    (/\ pc = "done"
     /\ "PipelineParse" \in ev.errs => Len(ev.rc) = 1
     /\ "MissingRedirectTarget" \notin ev.errs
     /\ ev.call \in {"builtin", "external"} /\ ev.redir # NoRedir
            => Len(Parsed(line).args) = Len(ev.args) + 2
     /\ ev.call = "none" /\ ev.redir # NoRedir => Len(Parsed(line).args) = 2)
        => \A b \in ev.heap.allocs : FreeCount(b) = 1

\* ------------------------------------------------------------ C22
\* the stages of the current pipeline that are builtins
BuiltinStages == { i \in Stages : i < Len(commands) /\ is_builtin(commands[i + 1][1]) }

\* C22: a builtin run as a stage of a pipeline executes in a forked child
\* that terminates right after the builtin returns: the child is never a
\* process that goes on running (in the fork loop, the parent's closing and
\* wait code, or the read loop), it holds no descriptor any more and it has
\* an exit status.
C22_BuiltinChildTerminates ==
    \A i \in BuiltinStages :
        /\ kids[i].st \in {"none", "forked", "exited", "reaped"}
        /\ kids[i].st \in {"exited", "reaped"} =>
               kids[i].t = NoFds /\ kids[i].status # VOID

\* the builtin of the first stage has run and ended while the program of
\* the second stage is still running and the shell has not reached its
\* wait loop
C22_Witness ==
    /\ pc = "fork" /\ 0 \in BuiltinStages
    /\ kids[0].st = "exited" /\ kids[0].prog.argv[1] = tECHO
    /\ kids[1].st = "running"

\* ------------------------------------------------------------ C23
\* C23: a builtin run as a stage of a pipeline makes its child terminate
\* with the builtin's own status: the exit status of the child is the value
\* execute_builtin returns (1 when type has no argument, when cd fails, when
\* history -r cannot read the file; 0 on success).
C23_StageStatusIsBuiltinReturn ==
    \A i \in BuiltinStages :
        kids[i].st \in {"exited", "reaped"} /\ kids[i].ret # VOID
            => kids[i].status = kids[i].ret

\* the same for the builtins that return 0
C23_StageStatusOfSuccess ==
    \A i \in BuiltinStages :
        kids[i].st \in {"exited", "reaped"} /\ kids[i].ret = 0
            => kids[i].status = kids[i].ret

\* ------------------------------------------------------------ C24
\* execute_builtin came back from a failed open of the redirection target
FailedOpenReturned ==
    pc = "done" /\ ev.call = "builtin" /\ "OpenFailed" \in ev.errs

\* C24: if opening the redirection target fails for a builtin invoked as the
\* sole command, the body is not run, execute_builtin returns 1, and the
\* shell's descriptor table is exactly what it was before the call: the
\* duplicate saved for restoring the stream is not left open.
C24_FailedOpenLeavesTable ==
    FailedOpenReturned => ev.builtins = 0 /\ ev.ret = 1 /\ fds = ev.before

\* the part of it about the body, the value returned and the two streams
C24_FailedOpenKeepsStreams ==
    FailedOpenReturned =>
        /\ ev.builtins = 0 /\ ev.ret = 1
        /\ fds[STDOUT_FILENO] = ev.before[STDOUT_FILENO]
        /\ fds[STDERR_FILENO] = ev.before[STDERR_FILENO]
\* C25: when a single command is executed, at most one of the four
\* redirection variables is set, and it is the one of the first operator of
\* the line with the token after it: cmd > out 2> err runs with stdout on
\* out only, and stderr is left where it was
SetTargets(r) == { v \in DOMAIN NoRedir : r[v] # NULLP }

C25_AtMostOneTarget ==
    ev.call \in {"builtin", "external"} =>
        LET tokens == Parsed(line).args
            i == FirstOp(tokens, 1)
        IN  /\ Cardinality(SetTargets(ev.redir)) <= 1
            /\ \A v \in SetTargets(ev.redir) :
                   i > 0 /\ v = RedirVar(tokens[i]) /\ ev.redir[v] = tokens[i + 1]
            /\ \A fd \in {STDOUT_FILENO, STDERR_FILENO} :
                   (ev.call = "external" /\ ev.forks = 1 /\ kids[0].prog # NoProg
                    /\ (i = 0 \/ OpStream(tokens[i]) # fd))
                       => (IF fd = STDOUT_FILENO THEN kids[0].prog.out ELSE kids[0].prog.err)
                              = ev.before[fd]

\* echo a > f 2> k has been run with stdout on f and nothing else set
C25_Witness ==
    /\ pc = "done" /\ ev.call = "builtin"
    /\ Parsed(line).args = <<tECHO, tA, opGT, tF, op2GT, <<"k">> >>
    /\ ev.redir = [NoRedir EXCEPT !.redirect_file = tF]
    /\ ev.ret = 0

\* C26: parse_command writes only inside argv[0..MAX_ARGS-1] and
\* current_arg[0..MAX_CMD_LEN-1], whatever the line: argc is at most
\* MAX_ARGS-1, the closing NULL is stored at an index below MAX_ARGS, and
\* the index into the argument being built never reaches MAX_CMD_LEN
C26_ParseWritesInBounds ==
    p_res # NoRes =>
        /\ p_res.argc <= MAX_ARGS - 1
        /\ p_res.nullAt < MAX_ARGS
        /\ ~p_res.ovf

\* the part about argv alone: of a call that came back, argc is at most
\* MAX_ARGS-1, every argument is one of argv[0..MAX_ARGS-2] and the NULL is
\* stored below MAX_ARGS
C26_ArgvInBounds ==
    (p_res # NoRes /\ p_res # Smashed) =>
        /\ p_res.argc <= MAX_ARGS - 1
        /\ Len(p_res.args) <= MAX_ARGS - 1
        /\ p_res.nullAt < MAX_ARGS

\* ------------------------------------------------------------ C27
\* the stages of the current pipeline whose builtin would change the shell
\* when run alone (cd, exit, history -w, history -a) and whose child has run it
StateStagesRun ==
    { i \in BuiltinStages :
        /\ kids[i].st \in {"exited", "reaped"}
        /\ \/ commands[i + 1][1] \in {tCD, tEXIT}
           \/ /\ commands[i + 1][1] = tHISTORY /\ Len(commands[i + 1]) >= 3
              /\ commands[i + 1][2] \in {tMINUS_W, tMINUS_A} }

\* C27: cd, exit, history -w and history -a run as a stage of a pipeline
\* change nothing in the shell: the shell is still running, and its working
\* directory and last_appended_count are what they were before the pipeline
C27_StageLeavesShellAlone ==
    StateStagesRun # {} =>
        /\ pc \notin {"exited", "crashed"}
        /\ env.cwd = prev.cwd
        /\ env.last_appended_count = prev.last_appended_count

\* cd /d | ls is over: cd returned 0 in its child, and the shell is back at
\* the end of the loop body in the directory it was in
C27_Witness ==
    /\ pc = "done" /\ 0 \in StateStagesRun
    /\ commands[1] = <<tCD, tD>>
    /\ kids[0].st = "reaped" /\ kids[0].ret = 0
    /\ env.cwd = <<"/">>

\* exit 3 | ls is over: the child of exit ended with status 3, and the shell
\* is back at the end of the loop body
C27_WitnessExit ==
    /\ pc = "done" /\ 0 \in StateStagesRun
    /\ commands[1][1] = tEXIT
    /\ kids[0].st = "reaped" /\ kids[0].status = 3

\* ------------------------------------------------------------ C28
\* the shell has exited after a session that started with HISTFILE set and
\* holding an entry, and in which no history -r, -w or -a moved
\* last_appended_count
AppendSessionOver ==
    /\ pc = "exited"
    /\ env.HISTFILE # NULLP /\ env.initial_history_length > 0
    /\ env.last_appended_count = env.initial_history_length

\* C28: with HISTFILE set and holding at least one entry at startup, when
\* the shell exits every entry added during the session has been appended
\* to HISTFILE exactly once: the file holds the entries it started with,
\* then the entries of the session, one line each, in order
C28_EachEntryAppendedOnce ==
    AppendSessionOver => Lines(env.files[env.HISTFILE]) = env.history

\* no entry of the session is missing from the file, and a session of one
\* line leaves each entry once
C28_NoEntryLost ==
    AppendSessionOver =>
        /\ Len(Lines(env.files[env.HISTFILE])) >= Len(env.history)
        /\ \A k \in 1..Len(env.history) :
               \E j \in 1..Len(Lines(env.files[env.HISTFILE])) :
                   Lines(env.files[env.HISTFILE])[j] = env.history[k]
        /\ Len(env.history) = env.initial_history_length + 1 =>
               Lines(env.files[env.HISTFILE]) = env.history

====
